---- MODULE Spec2Model ----
(***************************************************************************)
(* Model of the Webby forum API server (the Go program kept in             *)
(* src/src/components/Homebody.jsx, second copy, lines 750-1652): token    *)
(* codec, authentication gate, origin gate, routing and the topic / reply  *)
(* handlers over the SQL tables.                                           *)
(*                                                                         *)
(* Go strings and byte slices are sequences of byte values (ASCII codes).  *)
(***************************************************************************)
EXTENDS Integers, Sequences, FiniteSets, TLC

VARIABLES
    env,        \* process environment: JWT_SECRET, FRONTEND_ORIGIN, FRONTEND_ORIGIN_2
    phase,      \* position of main(): "init", "serving", "aborted"
    jwtSecret,  \* var jwtSecret []byte
    now,        \* the wall clock, time.Now().Unix()
    users,      \* table users:   id -> row
    topics,     \* table topics:  id -> row
    replies,    \* table replies: id -> row
    nextID,     \* the serial sequences of the three tables
    issued,     \* tokens handed out by /login and held by clients
    reqs,       \* requests in flight: slot -> handler activation
    resp,       \* the response written by the last step, if it wrote one
    probe,      \* last application of a pure function: inputs and result
    client      \* the browser: the auth state of App and the "auth" item of localStorage

vars == <<env, phase, jwtSecret, now, users, topics, replies, nextID, issued, reqs, resp, probe, client>>

\* everything but the clock and the probe
serverVars == <<env, phase, jwtSecret, users, topics, replies, nextID, issued, reqs, resp>>

(***************************************************************************)
(* Bounds of the model.                                                    *)
(***************************************************************************)
\* earliest reading of the clock (Unix seconds)
Epoch == 1700000000
\* user ids carried by probed tokens range over -1..MaxSubject
MaxSubject == 2

(***************************************************************************)
(* Byte strings.                                                           *)
(***************************************************************************)
Dot == 46
Slash == 47
Space == 32
Minus == 45
Plus == 43
Quote == 34
Colon == 58
Comma == 44
LBrace == 123
RBrace == 125
NUL == 0
CR == 13
LF == 10

\* the literals of the program
StrBearer == <<66, 101, 97, 114, 101, 114, 32>>       \* "Bearer "
StrUid == <<117, 105, 100>>                           \* uid
StrExp == <<101, 120, 112>>                           \* exp

\* strings.HasPrefix
HasPrefix(s, prefix) ==
    /\ Len(s) >= Len(prefix)
    /\ SubSeq(s, 1, Len(prefix)) = prefix

\* strings.TrimPrefix
TrimPrefix(s, prefix) ==
    IF HasPrefix(s, prefix) THEN SubSeq(s, Len(prefix) + 1, Len(s)) ELSE s

\* strings.TrimRight(s, "/"): every trailing cut byte is removed
RECURSIVE TrimRight(_, _)
TrimRight(s, c) ==
    IF Len(s) > 0 /\ s[Len(s)] = c THEN TrimRight(SubSeq(s, 1, Len(s) - 1), c) ELSE s

\* strings.IndexByte from position i on, 0 when the byte does not occur
RECURSIVE IndexFrom(_, _, _)
IndexFrom(s, c, i) ==
    IF i > Len(s) THEN 0 ELSE IF s[i] = c THEN i ELSE IndexFrom(s, c, i + 1)

\* strings.Split(s, sep) for a one-byte separator: n separators give n+1 parts
RECURSIVE Split(_, _)
Split(s, sep) ==
    LET k == IndexFrom(s, sep, 1)
    IN  IF k = 0 THEN <<s>>
        ELSE <<SubSeq(s, 1, k - 1)>> \o Split(SubSeq(s, k + 1, Len(s)), sep)

IsDigit(c) == c >= 48 /\ c <= 57

\* strconv.Itoa / the integer encoder of encoding/json
RECURSIVE Digits(_)
Digits(n) == IF n < 10 THEN <<48 + n>> ELSE Digits(n \div 10) \o <<48 + (n % 10)>>

Itoa(n) == IF n < 0 THEN <<Minus>> \o Digits(0 - n) ELSE Digits(n)

RECURSIVE DigitsValue(_)
DigitsValue(s) ==
    IF Len(s) = 0 THEN 0 ELSE 10 * DigitsValue(SubSeq(s, 1, Len(s) - 1)) + (s[Len(s)] - 48)

\* a JSON integer literal: optional minus, digits, no leading zero
IsIntLiteral(s) ==
    LET d == IF Len(s) > 0 /\ s[1] = Minus THEN SubSeq(s, 2, Len(s)) ELSE s
    IN  /\ Len(d) > 0
        /\ \A i \in 1..Len(d) : IsDigit(d[i])
        /\ (Len(d) > 1 => d[1] # 48)

IntValue(s) ==
    IF s[1] = Minus THEN 0 - DigitsValue(SubSeq(s, 2, Len(s))) ELSE DigitsValue(s)

\* strings.TrimSuffix(s, "/")
TrimSuffix(s, c) ==
    IF Len(s) > 0 /\ s[Len(s)] = c THEN SubSeq(s, 1, Len(s) - 1) ELSE s

\* strconv.Atoi: an optional sign, then one digit or more
Atoi(s) ==
    LET signed == Len(s) > 0 /\ s[1] \in {Minus, Plus}
        d == IF signed THEN SubSeq(s, 2, Len(s)) ELSE s
    IN  IF Len(d) = 0 \/ \E i \in 1..Len(d) : ~IsDigit(d[i])
        THEN [ok |-> FALSE, val |-> 0]
        ELSE [ok |-> TRUE,
              val |-> IF signed /\ s[1] = Minus THEN 0 - DigitsValue(d) ELSE DigitsValue(d)]

\* strings.TrimSpace on the texts of the model
TrimSpace(s) == IF s = " " THEN "" ELSE s

(***************************************************************************)
(* encoding/base64, RawURLEncoding: URL alphabet, no padding.              *)
(***************************************************************************)
B64Char(i) ==
    IF i < 26 THEN 65 + i
    ELSE IF i < 52 THEN 97 + (i - 26)
    ELSE IF i < 62 THEN 48 + (i - 52)
    ELSE IF i = 62 THEN 45 ELSE 95

\* the 6-bit value of an alphabet byte, -1 for any other byte
B64Index(c) ==
    IF c >= 65 /\ c <= 90 THEN c - 65
    ELSE IF c >= 97 /\ c <= 122 THEN c - 97 + 26
    ELSE IF c >= 48 /\ c <= 57 THEN c - 48 + 52
    ELSE IF c = 45 THEN 62
    ELSE IF c = 95 THEN 63 ELSE 0 - 1

B64Alphabet == {B64Char(i) : i \in 0..63}

\* the k-th 6-bit group of src, bytes past the end counting as zero
Sextet(src, k) ==
    LET g == (k - 1) \div 4
        b1 == src[3 * g + 1]
        b2 == IF 3 * g + 2 <= Len(src) THEN src[3 * g + 2] ELSE 0
        b3 == IF 3 * g + 3 <= Len(src) THEN src[3 * g + 3] ELSE 0
    IN  CASE (k - 1) % 4 = 0 -> b1 \div 4
          [] (k - 1) % 4 = 1 -> (b1 % 4) * 16 + (b2 \div 16)
          [] (k - 1) % 4 = 2 -> (b2 % 16) * 4 + (b3 \div 64)
          [] OTHER -> b3 % 64

\* 3 bytes give 4 characters, a rest of 1 or 2 bytes gives 2 or 3
EncodedLen(n) == (n \div 3) * 4 + (IF n % 3 = 0 THEN 0 ELSE (n % 3) + 1)

EncodeToString(src) == [k \in 1..EncodedLen(Len(src)) |-> B64Char(Sextet(src, k))]

\* the k-th byte of the decoding of s
Octet(s, k) ==
    LET g == (k - 1) \div 3
        c1 == B64Index(s[4 * g + 1])
        c2 == B64Index(s[4 * g + 2])
        c3 == IF 4 * g + 3 <= Len(s) THEN B64Index(s[4 * g + 3]) ELSE 0
        c4 == IF 4 * g + 4 <= Len(s) THEN B64Index(s[4 * g + 4]) ELSE 0
    IN  CASE (k - 1) % 3 = 0 -> c1 * 4 + (c2 \div 16)
          [] (k - 1) % 3 = 1 -> (c2 % 16) * 16 + (c3 \div 4)
          [] OTHER -> (c3 % 4) * 64 + c4

\* 4 characters give 3 bytes, a rest of 2 or 3 characters gives 1 or 2
DecodedLen(n) == (n \div 4) * 3 + (IF n % 4 = 0 THEN 0 ELSE (n % 4) - 1)

\* DecodeString: CR and LF are skipped, any byte outside the alphabet and a
\* dangling single character are errors (the decoder is not Strict, so unused
\* trailing bits are not inspected)
DecodeString(s) ==
    LET t == SelectSeq(s, LAMBDA c : c # CR /\ c # LF)
    IN  IF (\E i \in 1..Len(t) : B64Index(t[i]) < 0) \/ Len(t) % 4 = 1
        THEN [ok |-> FALSE, bytes |-> <<>>]
        ELSE [ok |-> TRUE, bytes |-> [k \in 1..DecodedLen(Len(t)) |-> Octet(t, k)]]

(***************************************************************************)
(* encoding/json for tokenPayload {uid, exp}.                              *)
(***************************************************************************)
\* json.Marshal(tokenPayload{UserID, Exp}): {"uid":N,"exp":M}
Marshal(pl) ==
    <<LBrace, Quote>> \o StrUid \o <<Quote, Colon>> \o Itoa(pl.uid) \o <<Comma, Quote>>
        \o StrExp \o <<Quote, Colon>> \o Itoa(pl.exp) \o <<RBrace>>

\* one member "key":int of an object, as [ok, key, val]
Member(m) ==
    LET kv == Split(m, Colon)
    IN  IF /\ Len(kv) = 2
           /\ Len(kv[1]) >= 2
           /\ kv[1][1] = Quote
           /\ kv[1][Len(kv[1])] = Quote
           /\ \A i \in 2..(Len(kv[1]) - 1) : kv[1][i] # Quote
           /\ IsIntLiteral(kv[2])
        THEN [ok |-> TRUE, key |-> SubSeq(kv[1], 2, Len(kv[1]) - 1), val |-> IntValue(kv[2])]
        ELSE [ok |-> FALSE, key |-> <<>>, val |-> 0]

\* the value of the last member named key, the zero value without one
RECURSIVE Field(_, _)
Field(ms, key) ==
    IF Len(ms) = 0 THEN 0
    ELSE IF Member(ms[Len(ms)]).key = key THEN Member(ms[Len(ms)]).val
    ELSE Field(SubSeq(ms, 1, Len(ms) - 1), key)

\* json.Unmarshal(pb, &pl) on the fragment of JSON the tokens use: one object
\* of integer members in any order, unknown members skipped, absent members
\* zero.  Any other text is reported as a syntax error.
Unmarshal(pb) ==
    IF Len(pb) < 2 \/ pb[1] # LBrace \/ pb[Len(pb)] # RBrace
    THEN [ok |-> FALSE, uid |-> 0, exp |-> 0]
    ELSE LET body == SubSeq(pb, 2, Len(pb) - 1)
             ms == IF Len(body) = 0 THEN <<>> ELSE Split(body, Comma)
         IN  IF \A i \in 1..Len(ms) : Member(ms[i]).ok
             THEN [ok |-> TRUE, uid |-> Field(ms, StrUid), exp |-> Field(ms, StrExp)]
             ELSE [ok |-> FALSE, uid |-> 0, exp |-> 0]

(***************************************************************************)
(* Token codec.                                                            *)
(***************************************************************************)
\* 24 * time.Hour, in seconds
TokenLifetime == 24 * 3600

\* hmac.New(sha256.New, key) ... mac.Sum(nil).  HMAC-SHA256 is modelled as an
\* ideal MAC: the tag determines the pair (key, message), so two tags are
\* equal exactly when key and message are.  Keys come from the environment
\* and hold no NUL byte.
hmacSum(key, data) == key \o <<NUL>> \o data

\* hmac.Equal: equality of the two byte strings
hmacEqual(a, b) == a = b

\* func sign with a key of its own in place of jwtSecret
sign_fixedKey(data, secret) == EncodeToString(hmacSum(<<>>, data))

\* func sign, secret standing for jwtSecret
sign(data, secret) == EncodeToString(hmacSum(secret, data))

\* makeToken with the signature taken over the raw claims instead of their encoding
makeToken_signsRawClaims(userID, clock, secret) ==
    LET pl == [uid |-> userID, exp |-> clock + TokenLifetime]
        p == EncodeToString(Marshal(pl))
    IN  p \o <<Dot>> \o sign(Marshal(pl), secret)

\* makeToken with the expiry a day and a second ahead
makeToken_expiryOffByOne(userID, clock, secret) ==
    LET pl == [uid |-> userID, exp |-> clock + TokenLifetime + 1]
        p == EncodeToString(Marshal(pl))
    IN  p \o <<Dot>> \o sign(p, secret)

\* func makeToken, clock standing for time.Now().Unix()
makeToken(userID, clock, secret) ==
    LET pl == [uid |-> userID, exp |-> clock + TokenLifetime]
        p == EncodeToString(Marshal(pl))
    IN  p \o <<Dot>> \o sign(p, secret)

ErrNone == "nil"

\* the decoding steps of parseToken: the claims, or the reason they are refused
decodeClaims(p) ==
    LET pb == DecodeString(p)
    IN  IF ~pb.ok THEN [err |-> "bad payload", uid |-> 0, exp |-> 0]
        ELSE LET pl == Unmarshal(pb.bytes)
             IN  IF ~pl.ok THEN [err |-> "bad payload json", uid |-> 0, exp |-> 0]
                 ELSE [err |-> ErrNone, uid |-> pl.uid, exp |-> pl.exp]

\* parseToken without the comparison of the signature
parseToken_noSignatureCheck(tok, clock, secret) ==
    LET parts == Split(tok, Dot)
    IN  IF Len(parts) # 2 THEN [uid |-> 0, err |-> "bad token"]
        ELSE LET pl == decodeClaims(parts[1])
             IN  IF pl.err # ErrNone THEN [uid |-> 0, err |-> pl.err]
                 ELSE IF clock > pl.exp THEN [uid |-> 0, err |-> "expired"]
                 ELSE [uid |-> pl.uid, err |-> ErrNone]

\* parseToken rejecting at the expiry instant itself
parseToken_expiresAtExp(tok, clock, secret) ==
    LET parts == Split(tok, Dot)
    IN  IF Len(parts) # 2 THEN [uid |-> 0, err |-> "bad token"]
        ELSE IF ~hmacEqual(sign(parts[1], secret), parts[2])
            THEN [uid |-> 0, err |-> "bad signature"]
        ELSE LET pl == decodeClaims(parts[1])
             IN  IF pl.err # ErrNone THEN [uid |-> 0, err |-> pl.err]
                 ELSE IF clock >= pl.exp THEN [uid |-> 0, err |-> "expired"]
                 ELSE [uid |-> pl.uid, err |-> ErrNone]

\* parseToken decoding the claims before it compares the signature
parseToken_decodesFirst(tok, clock, secret) ==
    LET parts == Split(tok, Dot)
    IN  IF Len(parts) # 2 THEN [uid |-> 0, err |-> "bad token"]
        ELSE LET pl == decodeClaims(parts[1])
             IN  IF pl.err # ErrNone THEN [uid |-> 0, err |-> pl.err]
                 ELSE IF ~hmacEqual(sign(parts[1], secret), parts[2])
                     THEN [uid |-> 0, err |-> "bad signature"]
                 ELSE IF clock > pl.exp THEN [uid |-> 0, err |-> "expired"]
                 ELSE [uid |-> pl.uid, err |-> ErrNone]

\* func parseToken, clock standing for time.Now().Unix()
parseToken(tok, clock, secret) ==
    LET parts == Split(tok, Dot)
    IN  IF Len(parts) # 2 THEN [uid |-> 0, err |-> "bad token"]
        ELSE IF ~hmacEqual(sign(parts[1], secret), parts[2])
            THEN [uid |-> 0, err |-> "bad signature"]
        ELSE LET pl == decodeClaims(parts[1])
             IN  IF pl.err # ErrNone THEN [uid |-> 0, err |-> pl.err]
                 ELSE IF clock > pl.exp THEN [uid |-> 0, err |-> "expired"]
                 ELSE [uid |-> pl.uid, err |-> ErrNone]

(***************************************************************************)
(* HTTP: requests, responses, the Origin Gate, the Authentication Gate     *)
(* and the routes of main().                                               *)
(*                                                                         *)
(* A request is [method, route, rest, query, q, origin, auth, body]: route  *)
(* is the ServeMux pattern its path falls under, rest the path after the   *)
(* pattern, query and q the topic_id and q parameters, origin and auth the *)
(* Origin and Authorization headers (the empty string when absent, as      *)
(* Header.Get), body the decoded body.                                     *)
(***************************************************************************)
NoHeaders == [acao |-> <<>>, vary |-> "", acam |-> "", acah |-> "", ctype |-> ""]

\* http.Error(w, msg, code)
HttpError(hdr, msg, code) ==
    [next |-> FALSE, status |-> code, body |-> msg,
     headers |-> [hdr EXCEPT !.ctype = "text/plain; charset=utf-8"]]

\* the Origin Gate echoing the declared origin as it was sent
cors_echoesRawOrigin(r, e) ==
    LET origin == TrimRight(r.origin, Slash)
        allowed1 == TrimRight(e.FRONTEND_ORIGIN, Slash)
        allowed2 == TrimRight(e.FRONTEND_ORIGIN_2, Slash)
        isAllowed == origin # <<>> /\ (origin = allowed1 \/ (allowed2 # <<>> /\ origin = allowed2))
        hdr == IF origin # <<>> /\ isAllowed
               THEN [acao |-> r.origin, vary |-> "Origin",
                     acam |-> "GET, POST, PUT, DELETE, OPTIONS",
                     acah |-> "Content-Type, Authorization", ctype |-> ""]
               ELSE NoHeaders
    IN  IF r.method = "OPTIONS"
        THEN IF ~isAllowed
             THEN HttpError(hdr, <<"CORS blocked for origin: ", origin>>, 403)
             ELSE [next |-> FALSE, status |-> 204, body |-> "", headers |-> hdr]
        ELSE IF origin # <<>> /\ ~isAllowed
            THEN HttpError(hdr, <<"CORS blocked for origin: ", origin>>, 403)
        ELSE [next |-> TRUE, status |-> 0, body |-> "",
              headers |-> [hdr EXCEPT !.ctype = "application/json"]]

\* the Origin Gate granting cross-origin access to callers that declare no
\* origin
cors_annotatesUndeclared(r, e) ==
    LET origin == TrimRight(r.origin, Slash)
        allowed1 == TrimRight(e.FRONTEND_ORIGIN, Slash)
        allowed2 == TrimRight(e.FRONTEND_ORIGIN_2, Slash)
        isAllowed == origin # <<>> /\ (origin = allowed1 \/ (allowed2 # <<>> /\ origin = allowed2))
        hdr == IF origin = <<>> \/ isAllowed
               THEN [acao |-> IF origin = <<>> THEN <<42>> ELSE origin, vary |-> "Origin",
                     acam |-> "GET, POST, PUT, DELETE, OPTIONS",
                     acah |-> "Content-Type, Authorization", ctype |-> ""]
               ELSE NoHeaders
    IN  IF r.method = "OPTIONS"
        THEN IF ~isAllowed
             THEN HttpError(hdr, <<"CORS blocked for origin: ", origin>>, 403)
             ELSE [next |-> FALSE, status |-> 204, body |-> "", headers |-> hdr]
        ELSE IF origin # <<>> /\ ~isAllowed
            THEN HttpError(hdr, <<"CORS blocked for origin: ", origin>>, 403)
        ELSE [next |-> TRUE, status |-> 0, body |-> "",
              headers |-> [hdr EXCEPT !.ctype = "application/json"]]


\* the Origin Gate answering every preflight with success
cors_answersEveryPreflight(r, e) ==
    LET origin == TrimRight(r.origin, Slash)
        allowed1 == TrimRight(e.FRONTEND_ORIGIN, Slash)
        allowed2 == TrimRight(e.FRONTEND_ORIGIN_2, Slash)
        isAllowed == origin # <<>> /\ (origin = allowed1 \/ (allowed2 # <<>> /\ origin = allowed2))
        hdr == IF origin # <<>> /\ isAllowed
               THEN [acao |-> origin, vary |-> "Origin",
                     acam |-> "GET, POST, PUT, DELETE, OPTIONS",
                     acah |-> "Content-Type, Authorization", ctype |-> ""]
               ELSE NoHeaders
    IN  IF r.method = "OPTIONS"
        THEN [next |-> FALSE, status |-> 204, body |-> "", headers |-> hdr]
        ELSE IF origin # <<>> /\ ~isAllowed
            THEN HttpError(hdr, <<"CORS blocked for origin: ", origin>>, 403)
        ELSE [next |-> TRUE, status |-> 0, body |-> "",
              headers |-> [hdr EXCEPT !.ctype = "application/json"]]


\* the Origin Gate comparing the declared origin as it was sent
cors_comparesRawOrigin(r, e) ==
    LET origin == r.origin
        allowed1 == TrimRight(e.FRONTEND_ORIGIN, Slash)
        allowed2 == TrimRight(e.FRONTEND_ORIGIN_2, Slash)
        isAllowed == origin # <<>> /\ (origin = allowed1 \/ (allowed2 # <<>> /\ origin = allowed2))
        hdr == IF origin # <<>> /\ isAllowed
               THEN [acao |-> origin, vary |-> "Origin",
                     acam |-> "GET, POST, PUT, DELETE, OPTIONS",
                     acah |-> "Content-Type, Authorization", ctype |-> ""]
               ELSE NoHeaders
    IN  IF r.method = "OPTIONS"
        THEN IF ~isAllowed
             THEN HttpError(hdr, <<"CORS blocked for origin: ", origin>>, 403)
             ELSE [next |-> FALSE, status |-> 204, body |-> "", headers |-> hdr]
        ELSE IF origin # <<>> /\ ~isAllowed
            THEN HttpError(hdr, <<"CORS blocked for origin: ", origin>>, 403)
        ELSE [next |-> TRUE, status |-> 0, body |-> "",
              headers |-> [hdr EXCEPT !.ctype = "application/json"]]


\* func cors(next): next |-> TRUE stands for next.ServeHTTP(w, r)
cors(r, e) ==
    LET origin == TrimRight(r.origin, Slash)
        allowed1 == TrimRight(e.FRONTEND_ORIGIN, Slash)
        allowed2 == TrimRight(e.FRONTEND_ORIGIN_2, Slash)
        isAllowed == origin # <<>> /\ (origin = allowed1 \/ (allowed2 # <<>> /\ origin = allowed2))
        hdr == IF origin # <<>> /\ isAllowed
               THEN [acao |-> origin, vary |-> "Origin",
                     acam |-> "GET, POST, PUT, DELETE, OPTIONS",
                     acah |-> "Content-Type, Authorization", ctype |-> ""]
               ELSE NoHeaders
    IN  IF r.method = "OPTIONS"
        THEN IF ~isAllowed
             THEN HttpError(hdr, <<"CORS blocked for origin: ", origin>>, 403)
             ELSE [next |-> FALSE, status |-> 204, body |-> "", headers |-> hdr]
        ELSE IF origin # <<>> /\ ~isAllowed
            THEN HttpError(hdr, <<"CORS blocked for origin: ", origin>>, 403)
        ELSE [next |-> TRUE, status |-> 0, body |-> "",
              headers |-> [hdr EXCEPT !.ctype = "application/json"]]

\* requireAuth letting a request through whatever parseToken says
requireAuth_ignoresParseError(r, clock, secret) ==
    IF r.auth = <<>> \/ ~HasPrefix(r.auth, StrBearer)
    THEN [next |-> FALSE, uid |-> 0, status |-> 401, body |-> "Unauthorized"]
    ELSE [next |-> TRUE, uid |-> parseToken(TrimPrefix(r.auth, StrBearer), clock, secret).uid,
          status |-> 0, body |-> ""]

\* requireAuth telling the caller why the token was refused
requireAuth_reportsReason(r, clock, secret) ==
    IF r.auth = <<>> \/ ~HasPrefix(r.auth, StrBearer)
    THEN [next |-> FALSE, uid |-> 0, status |-> 401, body |-> "Unauthorized"]
    ELSE LET res == parseToken(TrimPrefix(r.auth, StrBearer), clock, secret)
         IN  IF res.err # ErrNone
             THEN [next |-> FALSE, uid |-> 0, status |-> 401, body |-> res.err]
             ELSE [next |-> TRUE, uid |-> res.uid, status |-> 0, body |-> ""]

\* func requireAuth(next): uid is the value bound to ctxUserID
requireAuth(r, clock, secret) ==
    IF r.auth = <<>> \/ ~HasPrefix(r.auth, StrBearer)
    THEN [next |-> FALSE, uid |-> 0, status |-> 401, body |-> "Unauthorized"]
    ELSE LET res == parseToken(TrimPrefix(r.auth, StrBearer), clock, secret)
         IN  IF res.err # ErrNone
             THEN [next |-> FALSE, uid |-> 0, status |-> 401, body |-> "Unauthorized"]
             ELSE [next |-> TRUE, uid |-> res.uid, status |-> 0, body |-> ""]

\* the routes of main() with DELETE /topics/{id} left outside requireAuth
mux_openTopicDelete(r) ==
    CASE r.route = "/register" -> [handler |-> "signupHandler", gated |-> FALSE]
      [] r.route = "/login" -> [handler |-> "loginHandler", gated |-> FALSE]
      [] r.route = "/replies" -> [handler |-> "repliesHandler", gated |-> r.method # "GET"]
      [] r.route = "/replies/" -> [handler |-> "replyByIDHandler", gated |-> TRUE]
      [] r.route = "/topics" -> [handler |-> "topicsHandler", gated |-> r.method # "GET"]
      [] r.route = "/topics/" ->
            [handler |-> "topicByIDHandler", gated |-> r.method \notin {"GET", "DELETE"}]
      [] r.route = "/search" -> [handler |-> "searchHandler", gated |-> FALSE]
      [] r.route = "/uploads/" -> [handler |-> "FileServer", gated |-> FALSE]
      [] r.route = "/me/avatar" -> [handler |-> "uploadAvatarHandler", gated |-> TRUE]
      [] r.route = "/debug-origin" -> [handler |-> "debugOrigin", gated |-> FALSE]
      [] OTHER -> [handler |-> "NotFound", gated |-> FALSE]

\* mux: the handler registered for the request's pattern, and whether it is
\* reached through requireAuth
mux(r) ==
    CASE r.route = "/register" -> [handler |-> "signupHandler", gated |-> FALSE]
      [] r.route = "/login" -> [handler |-> "loginHandler", gated |-> FALSE]
      [] r.route = "/replies" -> [handler |-> "repliesHandler", gated |-> r.method # "GET"]
      [] r.route = "/replies/" -> [handler |-> "replyByIDHandler", gated |-> TRUE]
      [] r.route = "/topics" -> [handler |-> "topicsHandler", gated |-> r.method # "GET"]
      [] r.route = "/topics/" -> [handler |-> "topicByIDHandler", gated |-> r.method # "GET"]
      [] r.route = "/search" -> [handler |-> "searchHandler", gated |-> FALSE]
      [] r.route = "/uploads/" -> [handler |-> "FileServer", gated |-> FALSE]
      [] r.route = "/me/avatar" -> [handler |-> "uploadAvatarHandler", gated |-> TRUE]
      [] r.route = "/debug-origin" -> [handler |-> "debugOrigin", gated |-> FALSE]
      [] OTHER -> [handler |-> "NotFound", gated |-> FALSE]

\* handler := cors(mux): the way of a request up to the resource handler.
\* stage names who answered ("cors", "auth") or "handler" when the resource
\* handler is invoked, with uid the value getUserID will return there.
Dispatch(r, e, clock, secret) ==
    LET c == cors(r, e)
    IN  IF ~c.next
        THEN [stage |-> "cors", status |-> c.status, body |-> c.body, headers |-> c.headers,
              handler |-> "", gated |-> FALSE, uid |-> 0]
        ELSE LET m == mux(r)
             IN  IF ~m.gated
                 THEN [stage |-> "handler", status |-> 0, body |-> "", headers |-> c.headers,
                       handler |-> m.handler, gated |-> FALSE, uid |-> 0]
                 ELSE LET a == requireAuth(r, clock, secret)
                      IN  IF ~a.next
                          THEN [stage |-> "auth", status |-> a.status, body |-> a.body,
                                headers |-> [c.headers EXCEPT !.ctype = "text/plain; charset=utf-8"],
                                handler |-> "", gated |-> TRUE, uid |-> 0]
                          ELSE [stage |-> "handler", status |-> 0, body |-> "",
                                headers |-> c.headers, handler |-> m.handler,
                                gated |-> TRUE, uid |-> a.uid]

(***************************************************************************)
(* The resource handlers over the tables.                                  *)
(*                                                                         *)
(* A handler runs one SQL statement per step.  w is the database           *)
(* [users, topics, replies, nextID]; a is the activation of the handler    *)
(* [req, ctx, handler, pc, local]: ctx the request context (<<uid>> when   *)
(* requireAuth bound ctxUserID, <<>> otherwise), pc the statement to run   *)
(* next, local the id returned by an INSERT; nd.ok tells whether the       *)
(* statement of this step succeeds.  A step returns the database after it, *)
(* the next pc ("done" when the handler has returned) and the response.    *)
(***************************************************************************)
\* the decoded JSON body; valid is FALSE when Decode returns an error
\* user_id is a member of the JSON text that no payload struct declares
NoBody == [valid |-> TRUE, title |-> "", content |-> "", topic_id |-> 0,
           name |-> "", email |-> "", password |-> "", file |-> "", user_id |-> 0]

\* func getUserID(r) that never reads the context
getUserID_ignoresContext(ctx) == 0

\* func getUserID(r)
getUserID(ctx) == IF ctx = <<>> THEN 0 ELSE ctx[1]

\* the handler returns having written status and body
Done(w, status, body) == [w |-> w, pc |-> "done", local |-> 0, status |-> status, body |-> body]

\* the handler goes on to its next statement
Goto(w, pc, local) == [w |-> w, pc |-> pc, local |-> local, status |-> 0, body |-> ""]

\* a table without the row id
Without(table, id) == [i \in DOMAIN table \ {id} |-> table[i]]

\* SELECT ... FROM topics t JOIN users u ON u.id = t.user_id WHERE t.id = id
TopicRows(w, id) ==
    IF id \in DOMAIN w.topics /\ w.topics[id].user_id \in DOMAIN w.users
    THEN { [id |-> id, title |-> w.topics[id].title, content |-> w.topics[id].content,
            user_id |-> w.topics[id].user_id,
            avatar_url |-> w.users[w.topics[id].user_id].avatar_url,
            reply_count |-> Cardinality({k \in DOMAIN w.replies : w.replies[k].topic_id = id})] }
    ELSE {}

\* SELECT ... FROM replies r JOIN users u ON u.id = r.user_id WHERE r.id = id
ReplyRows(w, id) ==
    IF id \in DOMAIN w.replies /\ w.replies[id].user_id \in DOMAIN w.users
    THEN { [id |-> id, topic_id |-> w.replies[id].topic_id, content |-> w.replies[id].content,
            user_id |-> w.replies[id].user_id,
            avatar_url |-> w.users[w.replies[id].user_id].avatar_url] }
    ELSE {}

\* topicsHandler recording the owner the body names
topicsHandler_ownerFromBody(a, w, nd) ==
    LET r == a.req
        uid == getUserID(a.ctx)
    IN  CASE r.method = "GET" ->
                IF ~nd.ok THEN Done(w, 500, "db error")
                ELSE Done(w, 200, UNION { TopicRows(w, id) : id \in DOMAIN w.topics })
          [] r.method = "POST" /\ a.pc = "start" ->
                IF uid = 0 THEN Done(w, 401, "Unauthorized")
                ELSE IF ~r.body.valid THEN Done(w, 400, "Invalid JSON")
                ELSE IF TrimSpace(r.body.title) = "" \/ TrimSpace(r.body.content) = ""
                    THEN Done(w, 400, "title and content required")
                ELSE IF ~nd.ok THEN Done(w, 500, "db error")
                ELSE LET id == w.nextID.topics
                         row == [title |-> r.body.title, content |-> r.body.content, user_id |-> r.body.user_id]
                     IN  Goto([w EXCEPT !.topics = (id :> row) @@ w.topics,
                                        !.nextID.topics = id + 1], "reselect", id)
          [] r.method = "POST" /\ a.pc = "reselect" ->
                IF ~nd.ok \/ TopicRows(w, a.local) = {} THEN Done(w, 500, "db error")
                ELSE Done(w, 200, [(CHOOSE t \in TopicRows(w, a.local) : TRUE) EXCEPT !.reply_count = 0])
          [] OTHER -> Done(w, 405, "Method not allowed")

\* func topicsHandler
topicsHandler(a, w, nd) ==
    LET r == a.req
        uid == getUserID(a.ctx)
    IN  CASE r.method = "GET" ->
                IF ~nd.ok THEN Done(w, 500, "db error")
                ELSE Done(w, 200, UNION { TopicRows(w, id) : id \in DOMAIN w.topics })
          [] r.method = "POST" /\ a.pc = "start" ->
                IF uid = 0 THEN Done(w, 401, "Unauthorized")
                ELSE IF ~r.body.valid THEN Done(w, 400, "Invalid JSON")
                ELSE IF TrimSpace(r.body.title) = "" \/ TrimSpace(r.body.content) = ""
                    THEN Done(w, 400, "title and content required")
                ELSE IF ~nd.ok THEN Done(w, 500, "db error")
                ELSE LET id == w.nextID.topics
                         row == [title |-> r.body.title, content |-> r.body.content, user_id |-> uid]
                     IN  Goto([w EXCEPT !.topics = (id :> row) @@ w.topics,
                                        !.nextID.topics = id + 1], "reselect", id)
          [] r.method = "POST" /\ a.pc = "reselect" ->
                IF ~nd.ok \/ TopicRows(w, a.local) = {} THEN Done(w, 500, "db error")
                ELSE Done(w, 200, [(CHOOSE t \in TopicRows(w, a.local) : TRUE) EXCEPT !.reply_count = 0])
          [] OTHER -> Done(w, 405, "Method not allowed")

\* topicByIDHandler comparing the caller to the owner without first refusing
\* the null identity
topicByIDHandler_nullSubjectCompared(a, w, nd) ==
    LET r == a.req
        id == Atoi(TrimSuffix(r.rest, Slash))
        uid == getUserID(a.ctx)
    IN  IF ~id.ok THEN Done(w, 400, "Invalid ID")
        ELSE CASE r.method = "GET" ->
                IF ~nd.ok \/ TopicRows(w, id.val) = {} THEN Done(w, 404, "Topic not found")
                ELSE Done(w, 200, CHOOSE t \in TopicRows(w, id.val) : TRUE)
          [] r.method = "PUT" /\ a.pc = "start" ->
                IF ~r.body.valid THEN Done(w, 400, "Invalid JSON")
                ELSE IF ~nd.ok \/ id.val \notin DOMAIN w.topics THEN Done(w, 404, "Topic not found")
                ELSE IF uid # w.topics[id.val].user_id THEN Done(w, 403, "Forbidden")
                ELSE Goto(w, "update", 0)
          [] r.method = "PUT" /\ a.pc = "update" ->
                IF ~nd.ok THEN Done(w, 500, "db error")
                ELSE IF id.val \in DOMAIN w.topics
                    THEN Goto([w EXCEPT !.topics[id.val].title = r.body.title,
                                        !.topics[id.val].content = r.body.content], "reselect", 0)
                ELSE Goto(w, "reselect", 0)
          [] r.method = "PUT" /\ a.pc = "reselect" ->
                IF ~nd.ok \/ TopicRows(w, id.val) = {} THEN Done(w, 500, "db error")
                ELSE Done(w, 200, CHOOSE t \in TopicRows(w, id.val) : TRUE)
          [] r.method = "DELETE" /\ a.pc = "start" ->
                IF ~nd.ok \/ id.val \notin DOMAIN w.topics THEN Done(w, 404, "Topic not found")
                ELSE IF uid # w.topics[id.val].user_id THEN Done(w, 403, "Forbidden")
                ELSE Goto(w, "delete", 0)
          [] r.method = "DELETE" /\ a.pc = "delete" ->
                IF ~nd.ok THEN Done(w, 204, "")
                ELSE Done([w EXCEPT !.topics = Without(w.topics, id.val)], 204, "")
          [] OTHER -> Done(w, 405, "Method not allowed")

\* topicByIDHandler taking a missing topic for one owned by nobody
topicByIDHandler_missingIsForbidden(a, w, nd) ==
    LET r == a.req
        id == Atoi(TrimSuffix(r.rest, Slash))
        uid == getUserID(a.ctx)
    IN  IF ~id.ok THEN Done(w, 400, "Invalid ID")
        ELSE CASE r.method = "GET" ->
                IF ~nd.ok \/ TopicRows(w, id.val) = {} THEN Done(w, 404, "Topic not found")
                ELSE Done(w, 200, CHOOSE t \in TopicRows(w, id.val) : TRUE)
          [] r.method = "PUT" /\ a.pc = "start" ->
                IF uid = 0 THEN Done(w, 401, "Unauthorized")
                ELSE IF ~r.body.valid THEN Done(w, 400, "Invalid JSON")
                ELSE IF ~nd.ok \/ id.val \notin DOMAIN w.topics THEN Done(w, 403, "Forbidden")
                ELSE IF uid # w.topics[id.val].user_id THEN Done(w, 403, "Forbidden")
                ELSE Goto(w, "update", 0)
          [] r.method = "PUT" /\ a.pc = "update" ->
                IF ~nd.ok THEN Done(w, 500, "db error")
                ELSE IF id.val \in DOMAIN w.topics
                    THEN Goto([w EXCEPT !.topics[id.val].title = r.body.title,
                                        !.topics[id.val].content = r.body.content], "reselect", 0)
                ELSE Goto(w, "reselect", 0)
          [] r.method = "PUT" /\ a.pc = "reselect" ->
                IF ~nd.ok \/ TopicRows(w, id.val) = {} THEN Done(w, 500, "db error")
                ELSE Done(w, 200, CHOOSE t \in TopicRows(w, id.val) : TRUE)
          [] r.method = "DELETE" /\ a.pc = "start" ->
                IF uid = 0 THEN Done(w, 401, "Unauthorized")
                ELSE IF ~nd.ok \/ id.val \notin DOMAIN w.topics THEN Done(w, 403, "Forbidden")
                ELSE IF uid # w.topics[id.val].user_id THEN Done(w, 403, "Forbidden")
                ELSE Goto(w, "delete", 0)
          [] r.method = "DELETE" /\ a.pc = "delete" ->
                IF ~nd.ok THEN Done(w, 204, "")
                ELSE Done([w EXCEPT !.topics = Without(w.topics, id.val)], 204, "")
          [] OTHER -> Done(w, 405, "Method not allowed")

\* func topicByIDHandler with an UPDATE that writes the whole row from the
\* payload, which names no owner
topicByIDHandler_updateRewritesOwner(a, w, nd) ==
    LET r == a.req
        id == Atoi(TrimSuffix(r.rest, Slash))
        uid == getUserID(a.ctx)
    IN  IF ~id.ok THEN Done(w, 400, "Invalid ID")
        ELSE CASE r.method = "GET" ->
                IF ~nd.ok \/ TopicRows(w, id.val) = {} THEN Done(w, 404, "Topic not found")
                ELSE Done(w, 200, CHOOSE t \in TopicRows(w, id.val) : TRUE)
          [] r.method = "PUT" /\ a.pc = "start" ->
                IF uid = 0 THEN Done(w, 401, "Unauthorized")
                ELSE IF ~r.body.valid THEN Done(w, 400, "Invalid JSON")
                ELSE IF ~nd.ok \/ id.val \notin DOMAIN w.topics THEN Done(w, 404, "Topic not found")
                ELSE IF uid # w.topics[id.val].user_id THEN Done(w, 403, "Forbidden")
                ELSE Goto(w, "update", 0)
          [] r.method = "PUT" /\ a.pc = "update" ->
                IF ~nd.ok THEN Done(w, 500, "db error")
                ELSE IF id.val \in DOMAIN w.topics
                    THEN Goto([w EXCEPT !.topics[id.val].title = r.body.title,
                                        !.topics[id.val].content = r.body.content,
                                        !.topics[id.val].user_id = 0], "reselect", 0)
                ELSE Goto(w, "reselect", 0)
          [] r.method = "PUT" /\ a.pc = "reselect" ->
                IF ~nd.ok \/ TopicRows(w, id.val) = {} THEN Done(w, 500, "db error")
                ELSE Done(w, 200, CHOOSE t \in TopicRows(w, id.val) : TRUE)
          [] r.method = "DELETE" /\ a.pc = "start" ->
                IF uid = 0 THEN Done(w, 401, "Unauthorized")
                ELSE IF ~nd.ok \/ id.val \notin DOMAIN w.topics THEN Done(w, 404, "Topic not found")
                ELSE IF uid # w.topics[id.val].user_id THEN Done(w, 403, "Forbidden")
                ELSE Goto(w, "delete", 0)
          [] r.method = "DELETE" /\ a.pc = "delete" ->
                IF ~nd.ok THEN Done(w, 204, "")
                ELSE Done([w EXCEPT !.topics = Without(w.topics, id.val)], 204, "")
          [] OTHER -> Done(w, 405, "Method not allowed")

\* func topicByIDHandler
topicByIDHandler(a, w, nd) ==
    LET r == a.req
        id == Atoi(TrimSuffix(r.rest, Slash))
        uid == getUserID(a.ctx)
    IN  IF ~id.ok THEN Done(w, 400, "Invalid ID")
        ELSE CASE r.method = "GET" ->
                IF ~nd.ok \/ TopicRows(w, id.val) = {} THEN Done(w, 404, "Topic not found")
                ELSE Done(w, 200, CHOOSE t \in TopicRows(w, id.val) : TRUE)
          [] r.method = "PUT" /\ a.pc = "start" ->
                IF uid = 0 THEN Done(w, 401, "Unauthorized")
                ELSE IF ~r.body.valid THEN Done(w, 400, "Invalid JSON")
                ELSE IF ~nd.ok \/ id.val \notin DOMAIN w.topics THEN Done(w, 404, "Topic not found")
                ELSE IF uid # w.topics[id.val].user_id THEN Done(w, 403, "Forbidden")
                ELSE Goto(w, "update", 0)
          [] r.method = "PUT" /\ a.pc = "update" ->
                IF ~nd.ok THEN Done(w, 500, "db error")
                ELSE IF id.val \in DOMAIN w.topics
                    THEN Goto([w EXCEPT !.topics[id.val].title = r.body.title,
                                        !.topics[id.val].content = r.body.content], "reselect", 0)
                ELSE Goto(w, "reselect", 0)
          [] r.method = "PUT" /\ a.pc = "reselect" ->
                IF ~nd.ok \/ TopicRows(w, id.val) = {} THEN Done(w, 500, "db error")
                ELSE Done(w, 200, CHOOSE t \in TopicRows(w, id.val) : TRUE)
          [] r.method = "DELETE" /\ a.pc = "start" ->
                IF uid = 0 THEN Done(w, 401, "Unauthorized")
                ELSE IF ~nd.ok \/ id.val \notin DOMAIN w.topics THEN Done(w, 404, "Topic not found")
                ELSE IF uid # w.topics[id.val].user_id THEN Done(w, 403, "Forbidden")
                ELSE Goto(w, "delete", 0)
          [] r.method = "DELETE" /\ a.pc = "delete" ->
                IF ~nd.ok THEN Done(w, 204, "")
                ELSE Done([w EXCEPT !.topics = Without(w.topics, id.val)], 204, "")
          [] OTHER -> Done(w, 405, "Method not allowed")

\* func repliesHandler
repliesHandler(a, w, nd) ==
    LET r == a.req
        uid == getUserID(a.ctx)
    IN  CASE r.method = "GET" ->
                LET topicID == Atoi(r.query)
                IN  IF ~topicID.ok THEN Done(w, 400, "Invalid topic_id")
                    ELSE IF ~nd.ok THEN Done(w, 500, "db error")
                    ELSE Done(w, 200, UNION { ReplyRows(w, id) :
                                    id \in {k \in DOMAIN w.replies : w.replies[k].topic_id = topicID.val} })
          [] r.method = "POST" /\ a.pc = "start" ->
                IF uid = 0 THEN Done(w, 401, "Unauthorized")
                ELSE IF ~r.body.valid THEN Done(w, 400, "Invalid JSON")
                ELSE IF r.body.topic_id = 0 \/ TrimSpace(r.body.content) = ""
                    THEN Done(w, 400, "topic_id and content required")
                ELSE IF ~nd.ok THEN Done(w, 500, "db error")
                ELSE LET id == w.nextID.replies
                         row == [topic_id |-> r.body.topic_id, content |-> r.body.content,
                                 user_id |-> uid]
                     IN  Goto([w EXCEPT !.replies = (id :> row) @@ w.replies,
                                        !.nextID.replies = id + 1], "reselect", id)
          [] r.method = "POST" /\ a.pc = "reselect" ->
                IF ~nd.ok \/ ReplyRows(w, a.local) = {} THEN Done(w, 500, "db error")
                ELSE Done(w, 200, CHOOSE t \in ReplyRows(w, a.local) : TRUE)
          [] OTHER -> Done(w, 405, "Method not allowed")

\* replyByIDHandler deleting a reply without comparing the caller to its owner
replyByIDHandler_deleteUnchecked(a, w, nd) ==
    LET r == a.req
        replyID == Atoi(TrimSuffix(r.rest, Slash))
        uid == getUserID(a.ctx)
    IN  IF ~replyID.ok THEN Done(w, 400, "Invalid ID")
        ELSE IF uid = 0 THEN Done(w, 401, "Unauthorized")
        ELSE CASE r.method = "PUT" /\ a.pc = "start" ->
                IF ~r.body.valid THEN Done(w, 400, "Invalid JSON")
                ELSE IF TrimSpace(r.body.content) = "" THEN Done(w, 400, "content required")
                ELSE IF ~nd.ok \/ replyID.val \notin DOMAIN w.replies
                    THEN Done(w, 404, "Reply not found")
                ELSE IF uid # w.replies[replyID.val].user_id THEN Done(w, 403, "Forbidden")
                ELSE Goto(w, "update", 0)
          [] r.method = "PUT" /\ a.pc = "update" ->
                IF ~nd.ok THEN Done(w, 500, "db error")
                ELSE Done(IF replyID.val \in DOMAIN w.replies
                          THEN [w EXCEPT !.replies[replyID.val].content = r.body.content]
                          ELSE w,
                          200, [id |-> replyID.val, content |-> r.body.content])
          [] r.method = "DELETE" /\ a.pc = "start" ->
                IF ~nd.ok \/ replyID.val \notin DOMAIN w.replies
                THEN Done(w, 404, "Reply not found")
                ELSE Goto(w, "delete", 0)
          [] r.method = "DELETE" /\ a.pc = "delete" ->
                IF ~nd.ok THEN Done(w, 500, "db error")
                ELSE Done([w EXCEPT !.replies = Without(w.replies, replyID.val)], 204, "")
          [] OTHER -> Done(w, 405, "Method not allowed")

\* func replyByIDHandler
replyByIDHandler(a, w, nd) ==
    LET r == a.req
        replyID == Atoi(TrimSuffix(r.rest, Slash))
        uid == getUserID(a.ctx)
    IN  IF ~replyID.ok THEN Done(w, 400, "Invalid ID")
        ELSE IF uid = 0 THEN Done(w, 401, "Unauthorized")
        ELSE CASE r.method = "PUT" /\ a.pc = "start" ->
                IF ~r.body.valid THEN Done(w, 400, "Invalid JSON")
                ELSE IF TrimSpace(r.body.content) = "" THEN Done(w, 400, "content required")
                ELSE IF ~nd.ok \/ replyID.val \notin DOMAIN w.replies
                    THEN Done(w, 404, "Reply not found")
                ELSE IF uid # w.replies[replyID.val].user_id THEN Done(w, 403, "Forbidden")
                ELSE Goto(w, "update", 0)
          [] r.method = "PUT" /\ a.pc = "update" ->
                IF ~nd.ok THEN Done(w, 500, "db error")
                ELSE Done(IF replyID.val \in DOMAIN w.replies
                          THEN [w EXCEPT !.replies[replyID.val].content = r.body.content]
                          ELSE w,
                          200, [id |-> replyID.val, content |-> r.body.content])
          [] r.method = "DELETE" /\ a.pc = "start" ->
                IF ~nd.ok \/ replyID.val \notin DOMAIN w.replies
                THEN Done(w, 404, "Reply not found")
                ELSE IF uid # w.replies[replyID.val].user_id THEN Done(w, 403, "Forbidden")
                ELSE Goto(w, "delete", 0)
          [] r.method = "DELETE" /\ a.pc = "delete" ->
                IF ~nd.ok THEN Done(w, 500, "db error")
                ELSE Done([w EXCEPT !.replies = Without(w.replies, replyID.val)], 204, "")
          [] OTHER -> Done(w, 405, "Method not allowed")

\* bcrypt.GenerateFromPassword with the salt drawn for this call
GenerateFromPassword(password, salt) == <<"bcrypt", salt, password>>

\* bcrypt.CompareHashAndPassword = nil
CompareHashAndPassword(hash, password) == hash[3] = password

\* func signupHandler; the unique constraints are users_username_key and
\* users_email_key
signupHandler(a, w, nd) ==
    LET r == a.req
    IN  IF r.method # "POST" THEN Done(w, 405, "Method not allowed")
        ELSE IF ~r.body.valid THEN Done(w, 400, "Invalid JSON")
        ELSE IF r.body.name = "" \/ r.body.email = "" \/ r.body.password = ""
            THEN Done(w, 400, "All fields are required")
        ELSE IF ~nd.ok THEN Done(w, 500, "Failed to create account")
        ELSE IF \E u \in DOMAIN w.users : w.users[u].username = r.body.name
            THEN Done(w, 409, "Username already exists")
        ELSE IF \E u \in DOMAIN w.users : w.users[u].email = r.body.email
            THEN Done(w, 409, "Email already exists")
        ELSE LET id == w.nextID.users
                 row == [username |-> r.body.name, email |-> r.body.email,
                         password_hash |-> GenerateFromPassword(r.body.password, nd.salt),
                         avatar_url |-> <<>>]
             IN  Done([w EXCEPT !.users = (id :> row) @@ w.users, !.nextID.users = id + 1],
                      200, [id |-> id, name |-> r.body.name, email |-> r.body.email,
                            avatar_url |-> <<>>, password |-> ""])

\* func loginHandler answering an unknown email with a message of its own
loginHandler_tellsUnknownEmail(a, w, nd, clock, secret) ==
    LET r == a.req
        found == {u \in DOMAIN w.users : w.users[u].email = r.body.email}
    IN  IF r.method # "POST" THEN Done(w, 405, "Method not allowed")
        ELSE IF ~r.body.valid THEN Done(w, 400, "Invalid JSON")
        ELSE IF r.body.email = "" \/ r.body.password = ""
            THEN Done(w, 400, "Email and password required")
        ELSE IF ~nd.ok THEN Done(w, 500, "Internal server error")
        ELSE IF found = {} THEN Done(w, 401, "Unknown email")
        ELSE LET id == CHOOSE u \in found : TRUE
             IN  IF ~CompareHashAndPassword(w.users[id].password_hash, r.body.password)
                 THEN Done(w, 401, "Invalid email or password")
                 ELSE Done(w, 200,
                           [user |-> [id |-> id, name |-> w.users[id].username,
                                      email |-> w.users[id].email,
                                      avatar_url |-> w.users[id].avatar_url, password |-> ""],
                            token |-> makeToken(id, clock, secret)])

\* func loginHandler
loginHandler(a, w, nd, clock, secret) ==
    LET r == a.req
        found == {u \in DOMAIN w.users : w.users[u].email = r.body.email}
    IN  IF r.method # "POST" THEN Done(w, 405, "Method not allowed")
        ELSE IF ~r.body.valid THEN Done(w, 400, "Invalid JSON")
        ELSE IF r.body.email = "" \/ r.body.password = ""
            THEN Done(w, 400, "Email and password required")
        ELSE IF ~nd.ok THEN Done(w, 500, "Internal server error")
        ELSE IF found = {} THEN Done(w, 401, "Invalid email or password")
        ELSE LET id == CHOOSE u \in found : TRUE
             IN  IF ~CompareHashAndPassword(w.users[id].password_hash, r.body.password)
                 THEN Done(w, 401, "Invalid email or password")
                 ELSE Done(w, 200,
                           [user |-> [id |-> id, name |-> w.users[id].username,
                                      email |-> w.users[id].email,
                                      avatar_url |-> w.users[id].avatar_url, password |-> ""],
                            token |-> makeToken(id, clock, secret)])

\* func searchHandler: q is matched against title, content and author name
searchHandler(a, w, nd) ==
    LET q == TrimSpace(a.req.q)
    IN  IF q = "" THEN Done(w, 200, {})
        ELSE IF ~nd.ok THEN Done(w, 500, "Search failed")
        ELSE Done(w, 200, UNION { {t \in TopicRows(w, id) :
                                      q \in {t.title, t.content, w.users[t.user_id].username}} :
                                  id \in DOMAIN w.topics })

\* func uploadAvatarHandler with an UPDATE that has lost its WHERE clause
uploadAvatarHandler_updatesEveryRow(a, w, nd, clock) ==
    LET r == a.req
        uid == getUserID(a.ctx)
        avatarURL == <<"/uploads/u", uid, clock>>
    IN  IF r.method # "POST" THEN Done(w, 405, "Method not allowed")
        ELSE IF uid = 0 THEN Done(w, 401, "Unauthorized")
        ELSE IF ~r.body.valid \/ r.body.file = "toolarge"
            THEN Done(w, 400, "File too large / invalid form")
        ELSE IF r.body.file = "" THEN Done(w, 400, "Missing file field: avatar")
        ELSE IF r.body.file # "image" THEN Done(w, 400, "Only image uploads are allowed")
        ELSE IF ~nd.fs THEN Done(w, 500, "Failed to save file")
        ELSE IF ~nd.ok THEN Done(w, 500, "Failed to update avatar_url")
        ELSE Done([w EXCEPT !.users = [u \in DOMAIN w.users |->
                                          [w.users[u] EXCEPT !.avatar_url = avatarURL]]],
                  200, [avatar_url |-> avatarURL])

\* func uploadAvatarHandler; body.file tells what the form holds under
\* "avatar" ("" nothing, "toolarge" more than 5 MiB, "image", "text"); nd.fs
\* tells whether the file could be written under ./uploads
uploadAvatarHandler(a, w, nd, clock) ==
    LET r == a.req
        uid == getUserID(a.ctx)
        avatarURL == <<"/uploads/u", uid, clock>>
    IN  IF r.method # "POST" THEN Done(w, 405, "Method not allowed")
        ELSE IF uid = 0 THEN Done(w, 401, "Unauthorized")
        ELSE IF ~r.body.valid \/ r.body.file = "toolarge"
            THEN Done(w, 400, "File too large / invalid form")
        ELSE IF r.body.file = "" THEN Done(w, 400, "Missing file field: avatar")
        ELSE IF r.body.file # "image" THEN Done(w, 400, "Only image uploads are allowed")
        ELSE IF ~nd.fs THEN Done(w, 500, "Failed to save file")
        ELSE IF ~nd.ok THEN Done(w, 500, "Failed to update avatar_url")
        ELSE Done(IF uid \in DOMAIN w.users
                  THEN [w EXCEPT !.users[uid].avatar_url = avatarURL] ELSE w,
                  200, [avatar_url |-> avatarURL])

\* one statement of the handler the request was routed to
HandlerStep(a, w, nd, clock, secret) ==
    CASE a.handler = "topicsHandler" -> topicsHandler(a, w, nd)
      [] a.handler = "topicByIDHandler" -> topicByIDHandler(a, w, nd)
      [] a.handler = "repliesHandler" -> repliesHandler(a, w, nd)
      [] a.handler = "replyByIDHandler" -> replyByIDHandler(a, w, nd)
      [] a.handler = "signupHandler" -> signupHandler(a, w, nd)
      [] a.handler = "loginHandler" -> loginHandler(a, w, nd, clock, secret)
      [] a.handler = "searchHandler" -> searchHandler(a, w, nd)
      [] a.handler = "uploadAvatarHandler" -> uploadAvatarHandler(a, w, nd, clock)
      [] a.handler = "FileServer" -> Done(w, IF nd.fs THEN 200 ELSE 404, "file")
      [] a.handler = "debugOrigin" ->
            Done(w, 200, [origin_raw |-> a.req.origin,
                          origin_trimmed |-> TrimRight(a.req.origin, Slash),
                          method |-> a.req.method])
      [] OTHER -> Done(w, 404, "404 page not found")

\* the activation of the handler a dispatched request d reaches
Activation(r, d) ==
    [req |-> r, ctx |-> IF d.gated THEN <<d.uid>> ELSE <<>>, handler |-> d.handler,
     pc |-> "start", local |-> 0]

(***************************************************************************)
(* Configuration and the values requests are drawn from.                   *)
(***************************************************************************)
StrApp == <<104, 116, 116, 112, 115, 58, 47, 47, 97, 112, 112, 46, 101, 120, 97, 109, 112, 108, 101, 46, 99, 111, 109>>   \* https://app.example.com
StrB == <<104, 116, 116, 112, 115, 58, 47, 47, 98, 46, 101, 120, 97, 109, 112, 108, 101, 46, 99, 111, 109>>               \* https://b.example.com
StrAppUpper == <<72, 84, 84, 80, 83>> \o SubSeq(StrApp, 6, Len(StrApp))                                                  \* HTTPS://app.example.com
StrEvil == <<104, 116, 116, 112, 115, 58, 47, 47, 101, 118, 105, 108, 46, 99, 111, 109>>                                   \* https://evil.com
StrK1 == <<107, 49>>     \* k1
StrK2 == <<107, 50>>     \* k2

\* values of JWT_SECRET that let the server start
Secrets == {StrK1, StrK2}

\* the instants at which the clock is read: start, and around the expiry of
\* a token issued at the start
ClockValues == {Epoch, Epoch + TokenLifetime - 1, Epoch + TokenLifetime, Epoch + TokenLifetime + 1}

\* user ids asked of makeToken
Subjects == (0 - 1)..MaxSubject

\* bytes a forger may write into a token: bytes of the alphabet (A B z 0 - _),
\* the separator, padding, a space and a line feed
TamperBytes == {65, 66, 122, 48, 45, 95, Dot, 61, Space, LF}

NoProbe == [op |-> "none"]

NoResp == [status |-> 0]

\* JavaScript's null
Null == [null |-> TRUE]

\* the routes of App the browser may show: Home, Topic, Login
Pages == {"/", "/topic/1", "/login"}

\* the browser before anyone has logged in: App's auth is null, localStorage
\* holds no "auth" item, App's topics is empty and the Login page is shown
NoClient == [auth |-> Null, storage |-> Null, page |-> "/login", topics |-> {}]

(***************************************************************************)
(* The token codec as pure functions: SpecCodec.                           *)
(***************************************************************************)
EnvOf(secret, o1, o2) == [JWT_SECRET |-> secret, FRONTEND_ORIGIN |-> o1, FRONTEND_ORIGIN_2 |-> o2]

EmptyDB ==
    /\ users = << >>
    /\ topics = << >>
    /\ replies = << >>
    /\ nextID = [users |-> 1, topics |-> 1, replies |-> 1]

InitCodec ==
    /\ env = EnvOf(StrK1, StrApp, <<>>)
    /\ jwtSecret = StrK1
    /\ phase = "serving"
    /\ now = Epoch
    /\ EmptyDB
    /\ issued = {}
    /\ reqs = << >>
    /\ resp = NoResp
    /\ probe = NoProbe
    /\ client = NoClient

\* time passes
Tick ==
    /\ \E t \in ClockValues : t > now /\ now' = t
    /\ resp' = NoResp
    /\ UNCHANGED <<env, phase, jwtSecret, users, topics, replies, nextID, issued, reqs, probe, client>>

\* makeToken(id) followed at once by parseToken
ProbeRoundTrip(id) ==
    /\ probe.op # "tamper"
    /\ LET tok == makeToken(id, now, jwtSecret)
       IN  probe' = [op |-> "roundtrip", id |-> id, issuedAt |-> now, at |-> now,
                     tok |-> tok, res |-> parseToken(tok, now, jwtSecret)]
    /\ UNCHANGED <<serverVars, now, client>>

\* parseToken, at the present time, of the token issued last
ProbeVerify ==
    /\ probe.op \in {"roundtrip", "verify"}
    /\ probe' = [probe EXCEPT !.op = "verify", !.at = now,
                               !.res = parseToken(probe.tok, now, jwtSecret)]
    /\ UNCHANGED <<serverVars, now, client>>

\* where position pos of an issued token lies
SegmentOf(tok, pos) ==
    LET sep == CHOOSE i \in 1..Len(tok) : tok[i] = Dot
    IN  IF pos < sep THEN "claims" ELSE IF pos = sep THEN "separator" ELSE "signature"

\* parseToken of the token issued last with the byte at pos replaced by c
ProbeTamper(pos, c) ==
    /\ probe.op = "roundtrip"
    /\ pos \in 1..Len(probe.tok)
    /\ probe.tok[pos] # c
    /\ probe' = [op |-> "tamper", id |-> probe.id, issuedAt |-> probe.issuedAt, at |-> now,
                 tok |-> probe.tok, pos |-> pos, byte |-> c,
                 segment |-> SegmentOf(probe.tok, pos),
                 res |-> parseToken([probe.tok EXCEPT ![pos] = c], now, jwtSecret)]
    /\ UNCHANGED <<serverVars, now, client>>

\* a token whose last byte was changed
FlipLast(tok) == [tok EXCEPT ![Len(tok)] = IF tok[Len(tok)] = 65 THEN 66 ELSE 65]

\* the first parts a caller may put in a token at time clock: claims whose
\* expiry lies ahead or behind, bytes outside the base64 alphabet, the
\* encoding of a text that is not JSON, nothing
ForgedClaims(clock) ==
    { EncodeToString(Marshal([uid |-> u, exp |-> e])) :
        u \in 1..MaxSubject, e \in {clock - 1, clock, clock + TokenLifetime} }
    \cup { <<33, 33>>, EncodeToString(<<104, 105>>), <<>> }

\* the second part of kind kind for the first part p
ForgedSignature(kind, p, secret) ==
    CASE kind = "signed" -> sign(p, secret)
      [] kind = "foreignKey" -> sign(p, StrK2 \o secret)
      [] kind = "flipped" -> FlipLast(sign(p, secret))
      [] kind = "echo" -> p
      [] OTHER -> <<>>

SignatureKinds == {"signed", "foreignKey", "flipped", "echo", "empty"}

\* parseToken of a token put together by the caller out of a first part, a
\* second part and, for shape 1 or 3, one part less or more
ProbeParse(p, kind, shape) ==
    /\ probe = NoProbe
    /\ \E sig \in {ForgedSignature(kind, p, jwtSecret)} :
          \E tok \in {CASE shape = 1 -> p
                        [] shape = 2 -> p \o <<Dot>> \o sig
                        [] OTHER -> p \o <<Dot>> \o sig \o <<Dot>> \o sig} :
             probe' = [op |-> "parse", tok |-> tok, first |-> p, kind |-> kind, shape |-> shape,
                       at |-> now, res |-> parseToken(tok, now, jwtSecret)]
    /\ UNCHANGED <<serverVars, now, client>>

\* an upper bound on the length of a token of the model
MaxTokenLen == 100

NextCodec ==
    \/ Tick
    \/ \E id \in Subjects : ProbeRoundTrip(id)
    \/ ProbeVerify
    \/ \E pos \in 1..MaxTokenLen : \E c \in TamperBytes : ProbeTamper(pos, c)
    \/ \E p \in ForgedClaims(now) : \E kind \in SignatureKinds : \E shape \in 1..3 :
          ProbeParse(p, kind, shape)

SpecCodec == InitCodec /\ [][NextCodec]_vars

(***************************************************************************)
(* The gates and the routes as pure functions of the request: SpecGate.    *)
(***************************************************************************)
Methods == {"GET", "POST", "PUT", "DELETE", "OPTIONS"}

Routes == {"/register", "/login", "/replies", "/replies/", "/topics", "/topics/",
           "/search", "/uploads/", "/me/avatar", "/debug-origin", "/"}


\* the Authorization headers a caller may send, each with the way it was made
AuthCandidates(secret) ==
    LET t1 == makeToken(1, Epoch, secret)
        t2 == makeToken(2, Epoch, secret)
        t0 == makeToken(0, Epoch, secret)
        junk == <<33, 33>>
        text == EncodeToString(<<104, 105>>)
    IN  { [kind |-> "absent", value |-> <<>>],
          [kind |-> "valid", value |-> StrBearer \o t1],
          [kind |-> "valid", value |-> StrBearer \o t2],
          [kind |-> "valid", value |-> StrBearer \o t0],
          [kind |-> "noScheme", value |-> t1],
          [kind |-> "lowerCaseScheme", value |-> <<98>> \o SubSeq(StrBearer, 2, 7) \o t1],
          [kind |-> "noSpace", value |-> SubSeq(StrBearer, 1, 6) \o t1],
          [kind |-> "twoSpaces", value |-> StrBearer \o <<Space>> \o t1],
          [kind |-> "malformed", value |-> StrBearer \o Split(t1, Dot)[1]],
          [kind |-> "tampered", value |-> StrBearer \o FlipLast(t1)],
          [kind |-> "foreignKey", value |-> StrBearer \o makeToken(1, Epoch, StrK2 \o secret)],
          [kind |-> "undecodable", value |-> StrBearer \o junk \o <<Dot>> \o sign(junk, secret)],
          [kind |-> "notJSON", value |-> StrBearer \o text \o <<Dot>> \o sign(text, secret)] }

\* the candidates under each secret the server may run with
Credentials == [s \in Secrets |-> AuthCandidates(s)]

\* the Origin headers a caller may send
OriginCandidates ==
    { <<>>, StrApp, StrApp \o <<Slash>>, StrApp \o <<Slash, Slash>>, StrB, StrEvil,
      StrAppUpper, <<Slash>>, <<42>> }

InitGate ==
    /\ \E o1 \in {StrApp, StrApp \o <<Slash>>} : \E o2 \in {<<>>, StrB} :
          env = EnvOf(StrK1, o1, o2)
    /\ jwtSecret = StrK1
    /\ phase = "serving"
    /\ now \in {Epoch, Epoch + TokenLifetime + 1}
    /\ EmptyDB
    /\ issued = {}
    /\ reqs = << >>
    /\ resp = NoResp
    /\ probe = NoProbe
    /\ client = NoClient

\* one request sent through cors(mux) up to the resource handler
ProbeRequest(method, route, origin, auth) ==
    /\ probe = NoProbe
    /\ LET r == [method |-> method, route |-> route, rest |-> <<49>>, query |-> <<49>>, q |-> "",
                 origin |-> origin, auth |-> auth.value, body |-> NoBody]
       IN  probe' = [op |-> "dispatch", req |-> r, authKind |-> auth.kind, at |-> now,
                     out |-> Dispatch(r, env, now, jwtSecret)]
    /\ UNCHANGED <<serverVars, now, client>>

NextGate ==
    \E auth \in Credentials[jwtSecret] : \E method \in Methods : \E route \in Routes :
        \E origin \in OriginCandidates : ProbeRequest(method, route, origin, auth)

SpecGate == InitGate /\ [][NextGate]_vars

(***************************************************************************)
(* The server under concurrent requests: Spec.                             *)
(*                                                                         *)
(* The server is serving, two accounts exist, each holds a token, and one  *)
(* topic and one reply were posted.  Requests arrive in the free slots and *)
(* their handlers run statement by statement, interleaved.                 *)
(***************************************************************************)
\* requests handled at the same time
MaxInflight == 2
\* topics and replies ever inserted
MaxTopics == 2
MaxReplies == 1

Slots == 1..MaxInflight

Idle == [pc |-> "idle"]

\* the database as one value
World == [users |-> users, topics |-> topics, replies |-> replies, nextID |-> nextID]

\* what may happen to the statement of a step
Outcomes == [ok : BOOLEAN, fs : {TRUE}, salt : {1}]

AllSucceed == [ok |-> TRUE, fs |-> TRUE, salt |-> 1]

UserRow(name, password) ==
    [username |-> name, email |-> name, password_hash |-> GenerateFromPassword(password, 1),
     avatar_url |-> <<>>]

\* the accounts and the posts the server starts with
Fixture ==
    [users |-> (1 :> UserRow("alice", "pw1")) @@ (2 :> UserRow("bob", "pw2")),
     topics |-> (1 :> [title |-> "a", content |-> "a", user_id |-> 1]),
     replies |-> (1 :> [topic_id |-> 1, content |-> "a", user_id |-> 2]),
     nextID |-> [users |-> 3, topics |-> 2, replies |-> 2]]

\* tokens in the hands of clients: one per account issued at Epoch, and one
\* of account 1 that has expired; key is the secret that signed the token
FixtureTokens ==
    { [uid |-> 1, at |-> Epoch, key |-> StrK1, tok |-> makeToken(1, Epoch, StrK1)],
      [uid |-> 2, at |-> Epoch, key |-> StrK1, tok |-> makeToken(2, Epoch, StrK1)],
      [uid |-> 1, at |-> Epoch - TokenLifetime - 1, key |-> StrK1,
       tok |-> makeToken(1, Epoch - TokenLifetime - 1, StrK1)] }

\* the Authorization headers callers holding the tokens held may send: none,
\* or a held token
AuthsOf(held) == {<<>>} \cup { StrBearer \o t.tok : t \in held }

Request(method, route, rest, body, auth) ==
    [method |-> method, route |-> route, rest |-> rest, query |-> <<49>>, q |-> "",
     origin |-> <<>>, auth |-> auth, body |-> body]

\* the requests on topics and replies that carry one of auths
RequestsWith(auths) ==
    LET edit == [NoBody EXCEPT !.title = "b", !.content = "b"]
        post == [NoBody EXCEPT !.title = "a", !.content = "a", !.topic_id = 1]
    IN  UNION { { Request("PUT", "/topics/", Itoa(id), edit, auth),
                  Request("DELETE", "/topics/", Itoa(id), NoBody, auth),
                  Request("PUT", "/replies/", Itoa(id), edit, auth),
                  Request("DELETE", "/replies/", Itoa(id), NoBody, auth) } :
                <<id, auth>> \in (1..MaxTopics) \X auths }
        \cup UNION { { Request("POST", "/topics", <<>>, post, auth),
                       Request("POST", "/replies", <<>>, post, auth) } : auth \in auths }

\* the requests of callers holding the tokens of the fixture
ResourceRequests == RequestsWith(AuthsOf(FixtureTokens))

\* the configuration the server of Spec runs with
FixtureEnv == EnvOf(StrK1, StrApp, <<>>)

\* Dispatch(r, env, now, jwtSecret) tabulated for that configuration at Epoch
DispatchTable == [r \in ResourceRequests |-> Dispatch(r, FixtureEnv, Epoch, StrK1)]

Init ==
    /\ env = FixtureEnv
    /\ jwtSecret = StrK1
    /\ phase = "serving"
    /\ now = Epoch
    /\ users = Fixture.users
    /\ topics = Fixture.topics
    /\ replies = Fixture.replies
    /\ nextID = Fixture.nextID
    /\ issued = FixtureTokens
    /\ reqs = [s \in Slots |-> Idle]
    /\ resp = NoResp
    /\ probe = NoProbe
    /\ client = NoClient

\* the effects of one statement res of activation a running in slot s
Commit(s, a, res) ==
    /\ users' = res.w.users
    /\ topics' = res.w.topics
    /\ replies' = res.w.replies
    /\ nextID' = res.w.nextID
    /\ reqs' = [reqs EXCEPT ![s] = IF res.pc = "done" THEN Idle
                                   ELSE [a EXCEPT !.pc = res.pc, !.local = res.local]]
    /\ resp' = [slot |-> s, req |-> a.req, ctx |-> a.ctx, status |-> res.status, body |-> res.body]
    /\ issued' = IF a.handler = "loginHandler" /\ res.status = 200
                 THEN issued \cup {[uid |-> res.body.user.id, at |-> now, key |-> jwtSecret,
                                    tok |-> res.body.token]}
                 ELSE issued

\* a request arrives and takes the first free slot: cors, mux, requireAuth
\* (looked up in DispatchTable, the server being in the tabulated
\* configuration), and the handler up to and including its first statement
Arrive(s, r, nd) ==
    /\ phase = "serving"
    /\ reqs[s] = Idle
    /\ \A k \in 1..(s - 1) : reqs[k] # Idle
    /\ (r.method = "POST" /\ r.route = "/topics") => nextID.topics <= MaxTopics
    /\ (r.method = "POST" /\ r.route = "/replies") => nextID.replies <= MaxReplies
    /\ env = FixtureEnv /\ now = Epoch /\ jwtSecret = StrK1
    /\ \E d \in {DispatchTable[r]} :
          IF d.stage # "handler"
          THEN /\ resp' = [slot |-> s, req |-> r, ctx |-> <<>>, status |-> d.status, body |-> d.body]
               /\ UNCHANGED <<users, topics, replies, nextID, reqs, issued>>
          ELSE \E a \in {Activation(r, d)} :
                  \E res \in {HandlerStep(a, World, nd, now, jwtSecret)} : Commit(s, a, res)
    /\ UNCHANGED <<env, phase, jwtSecret, now, probe, client>>

\* the handler in slot s runs its next statement
Step(s, nd) ==
    /\ reqs[s] # Idle
    /\ \E res \in {HandlerStep(reqs[s], World, nd, now, jwtSecret)} : Commit(s, reqs[s], res)
    /\ UNCHANGED <<env, phase, jwtSecret, now, probe, client>>

Next ==
    \/ \E s \in Slots : \E r \in ResourceRequests : \E nd \in Outcomes : Arrive(s, r, nd)
    \/ \E s \in Slots : \E nd \in Outcomes : Step(s, nd)

Spec == Init /\ [][Next]_vars

(***************************************************************************)
(* The ownership decision of the edit and delete handlers: SpecPolicy.     *)
(***************************************************************************)
\* a handler run to its end, every statement succeeding
RECURSIVE RunHandler(_, _, _, _)
RunHandler(a, w, clock, secret) ==
    LET res == HandlerStep(a, w, AllSucceed, clock, secret)
    IN  IF res.pc = "done" THEN res
        ELSE RunHandler([a EXCEPT !.pc = res.pc, !.local = res.local], res.w, clock, secret)

InitPolicy ==
    /\ env = EnvOf(StrK1, StrApp, <<>>)
    /\ jwtSecret = StrK1
    /\ phase = "serving"
    /\ now = Epoch
    /\ EmptyDB
    /\ issued = {}
    /\ reqs = << >>
    /\ resp = NoResp
    /\ probe = NoProbe
    /\ client = NoClient

\* an edit or delete handler invoked with subject bound to ctxUserID, on a
\* database where topic 1 and reply 1 belong to owner
ProbeOwnership(method, route, subject, owner, target) ==
    /\ LET w0 == [Fixture EXCEPT !.topics[1].user_id = owner, !.replies[1].user_id = owner]
           r == Request(method, route, Itoa(target),
                        [NoBody EXCEPT !.title = "b", !.content = "b"], <<>>)
           a == [req |-> r, ctx |-> <<subject>>, handler |-> mux(r).handler,
                 pc |-> "start", local |-> 0]
           res == RunHandler(a, w0, now, jwtSecret)
       IN  probe' = [op |-> "ownership", method |-> method, route |-> route,
                     subject |-> subject, owner |-> owner, target |-> target,
                     status |-> res.status, mutated |-> res.w # w0]
    /\ UNCHANGED <<serverVars, now, client>>

NextPolicy ==
    \E method \in {"PUT", "DELETE"} : \E route \in {"/topics/", "/replies/"} :
        \E subject \in Subjects : \E owner \in Subjects : \E target \in 1..MaxTopics :
            ProbeOwnership(method, route, subject, owner, target)

SpecPolicy == InitPolicy /\ [][NextPolicy]_vars

(***************************************************************************)
(* One request served from end to end on the fixture: SpecServe.           *)
(***************************************************************************)
\* the bodies an edit may carry: well-formed, not JSON, blank content
EditBodies ==
    [ valid |-> [NoBody EXCEPT !.title = "b", !.content = "b"],
      invalid |-> [NoBody EXCEPT !.valid = FALSE],
      blank |-> [NoBody EXCEPT !.title = "b", !.content = " "] ]

\* the Origin headers of the callers of SpecServe
ServeOrigins == {<<>>, StrApp, StrEvil, <<Slash>>}

InitServe ==
    /\ env = FixtureEnv
    /\ jwtSecret = StrK1
    /\ phase = "serving"
    /\ now \in {Epoch, Epoch + TokenLifetime + 1}
    /\ users = Fixture.users
    /\ topics = Fixture.topics
    /\ replies = Fixture.replies
    /\ nextID = Fixture.nextID
    /\ issued = {}
    /\ reqs = << >>
    /\ resp = NoResp
    /\ probe = NoProbe
    /\ client = NoClient

\* the owner ids a creation body may name: none, an account, no account
BodyOwners == 0..3

\* the requests of SpecServe under each secret: PUT and DELETE on a topic or
\* reply id, and POST /topics and POST /replies with a body that names an owner
ServeCases ==
    [s \in Secrets |->
        { [op |-> "serve", authKind |-> auth.kind, bodyKind |-> kind, target |-> target,
           req |-> [Request(method, route, Itoa(target), EditBodies[kind], auth.value)
                      EXCEPT !.origin = origin]] :
             auth \in Credentials[s], method \in {"PUT", "DELETE"},
             route \in {"/topics/", "/replies/"}, target \in 1..MaxTopics,
             kind \in DOMAIN EditBodies, origin \in ServeOrigins }
        \cup
        { [op |-> "create", authKind |-> auth.kind, bodyKind |-> "valid", target |-> 0,
           req |-> Request("POST", route, <<>>,
                           [NoBody EXCEPT !.title = "a", !.content = "a", !.topic_id = 1,
                                          !.user_id = owner], auth.value)] :
             auth \in Credentials[s], route \in {"/topics", "/replies"},
             owner \in BodyOwners } ]

\* a request sent through cors(mux) and, when it reaches its handler, run to
\* the end on the database as it stands; the probe records the answer, whether
\* the database would be changed, the rows added and whether the rows there
\* before are kept
ProbeServe(c) ==
    /\ probe = NoProbe
    /\ \E r \in {c.req} :
       \E d \in {Dispatch(r, env, now, jwtSecret)} :
       \E res \in {IF d.stage = "handler"
                   THEN RunHandler(Activation(r, d), World, now, jwtSecret)
                   ELSE Done(World, d.status, d.body)} :
          probe' = [op |-> c.op, req |-> r, authKind |-> c.authKind, bodyKind |-> c.bodyKind,
                    at |-> now, target |-> c.target, stage |-> d.stage, gated |-> d.gated,
                    uid |-> d.uid,
                    existed |-> c.target \in DOMAIN (IF r.route = "/topics/" THEN topics ELSE replies),
                    owner |-> IF r.route = "/topics/"
                              THEN (IF c.target \in DOMAIN topics THEN topics[c.target].user_id ELSE 0)
                              ELSE (IF c.target \in DOMAIN replies THEN replies[c.target].user_id ELSE 0),
                    status |-> res.status, body |-> res.body, mutated |-> res.w # World,
                    topics |-> { res.w.topics[id] : id \in DOMAIN res.w.topics \ DOMAIN topics },
                    replies |-> { res.w.replies[id] : id \in DOMAIN res.w.replies \ DOMAIN replies },
                    kept |-> /\ \A id \in DOMAIN topics :
                                   id \in DOMAIN res.w.topics /\ res.w.topics[id] = topics[id]
                             /\ \A id \in DOMAIN replies :
                                   id \in DOMAIN res.w.replies /\ res.w.replies[id] = replies[id]]
    /\ UNCHANGED <<serverVars, now, client>>

NextServe == \E c \in ServeCases[jwtSecret] : ProbeServe(c)

SpecServe == InitServe /\ [][NextServe]_vars

(***************************************************************************)
(* The life of the service: startup and restarts under another secret      *)
(* (SpecBoot), and the logins, logouts and requests of a session           *)
(* (SpecSession).                                                          *)
(***************************************************************************)
\* tokens /login hands out in SpecSession
MaxIssued == 2
\* accounts there are room for
MaxAccounts == 3

StrDB == <<112, 103>>     \* pg

\* os.Getenv: the empty string for a variable that is not set
Getenv(e, key) == IF key \in DOMAIN e THEN e[key] ELSE <<>>

\* the environment of a process: JWT_SECRET and DATABASE_URL set to secret and
\* url unless these are empty
SessionEnv(secret, url) ==
    [k \in {"FRONTEND_ORIGIN", "FRONTEND_ORIGIN_2"}
          \cup (IF secret = <<>> THEN {} ELSE {"JWT_SECRET"})
          \cup (IF url = <<>> THEN {} ELSE {"DATABASE_URL"}) |->
        CASE k = "FRONTEND_ORIGIN" -> StrApp
          [] k = "FRONTEND_ORIGIN_2" -> <<>>
          [] k = "JWT_SECRET" -> secret
          [] k = "DATABASE_URL" -> url]

\* a process about to run main
InitBoot ==
    /\ \E secret \in Secrets \cup {<<>>} : \E url \in {<<>>, StrDB} : env = SessionEnv(secret, url)
    /\ jwtSecret = <<>>
    /\ phase = "init"
    /\ now = Epoch
    /\ users = Fixture.users
    /\ topics = Fixture.topics
    /\ replies = Fixture.replies
    /\ nextID = Fixture.nextID
    /\ issued = {}
    /\ reqs = [s \in Slots |-> Idle]
    /\ resp = NoResp
    /\ probe = NoProbe
    /\ client = NoClient

\* func main with jwtSecret assigned although JWT_SECRET is empty
Main_startsWithoutSecret(ping) ==
    /\ phase = "init"
    /\ IF Getenv(env, "DATABASE_URL") = <<>>
       THEN phase' = "aborted" /\ UNCHANGED jwtSecret
       ELSE /\ jwtSecret' = Getenv(env, "JWT_SECRET")
            /\ phase' = IF ping THEN "serving" ELSE "aborted"
    /\ resp' = NoResp
    /\ UNCHANGED <<env, now, users, topics, replies, nextID, issued, reqs, probe, client>>

\* func main up to ListenAndServe: log.Fatal ends the process ("aborted");
\* ping tells whether db.Ping succeeds; the routes are registered and the
\* server listens in phase "serving"
Main(ping) ==
    /\ phase = "init"
    /\ IF Getenv(env, "DATABASE_URL") = <<>>
       THEN phase' = "aborted" /\ UNCHANGED jwtSecret
       ELSE IF Getenv(env, "JWT_SECRET") = <<>>
       THEN phase' = "aborted" /\ UNCHANGED jwtSecret
       ELSE /\ jwtSecret' = Getenv(env, "JWT_SECRET")
            /\ phase' = IF ping THEN "serving" ELSE "aborted"
    /\ resp' = NoResp
    /\ UNCHANGED <<env, now, users, topics, replies, nextID, issued, reqs, probe, client>>

\* the process ends and a new one is started with JWT_SECRET = secret: its
\* package variable jwtSecret is nil again and nothing is in flight; the
\* database, the tokens handed out and the browser outlive the process
Restart(secret) ==
    /\ phase \in {"serving", "aborted"}
    /\ env' = SessionEnv(secret, Getenv(env, "DATABASE_URL"))
    /\ jwtSecret' = <<>>
    /\ phase' = "init"
    /\ reqs' = [s \in Slots |-> Idle]
    /\ resp' = NoResp
    /\ UNCHANGED <<now, users, topics, replies, nextID, issued, probe, client>>

\* the requests of a session: logins of the Login page with the right and
\* a wrong password, and edits, deletes, replies and avatar uploads carrying
\* one of auths
SessionRequests(auths) ==
    LET login(email, password) ==
            Request("POST", "/login", <<>>,
                    [NoBody EXCEPT !.email = email, !.password = password], <<>>)
    IN  { login("alice", "pw1"), login("alice", "pw2"), login("bob", "pw2") }
        \cup UNION { { Request("PUT", "/topics/", Itoa(1),
                               [NoBody EXCEPT !.title = "b", !.content = "b"], auth),
                       Request("DELETE", "/topics/", Itoa(1), NoBody, auth),
                       Request("PUT", "/replies/", Itoa(1), [NoBody EXCEPT !.content = "b"], auth),
                       Request("POST", "/replies", <<>>,
                               [NoBody EXCEPT !.content = "a", !.topic_id = 1], auth),
                       Request("POST", "/me/avatar", <<>>, [NoBody EXCEPT !.file = "image"], auth) } :
                     auth \in auths }

\* Login.handleSubmit after the response of /login: a 2xx response is stored
\* under "auth" and becomes App's auth; anything else changes neither
LoginSubmitted(c, status, body) ==
    IF status \in 200..299
    THEN [c EXCEPT !.auth = body, !.storage = body, !.page = "/"]
    ELSE c

\* a request is served while none is in flight: cors, mux and requireAuth,
\* of which d is the result, and the handler up to and including its first
\* statement; the browser handles the response of a login
Serve(r, nd, d) ==
    /\ phase = "serving"
    /\ reqs[1] = Idle
    /\ r.route = "/login" => Cardinality(issued) < MaxIssued
    /\ r.route = "/replies" => nextID.replies < Fixture.nextID.replies + MaxReplies
    /\ r.route = "/register" => nextID.users <= MaxAccounts
    /\ IF d.stage # "handler"
       THEN /\ resp' = [slot |-> 1, req |-> r, ctx |-> <<>>, status |-> d.status, body |-> d.body]
            /\ UNCHANGED <<users, topics, replies, nextID, reqs, issued, client>>
       ELSE \E a \in {Activation(r, d)} :
               \E res \in {HandlerStep(a, World, nd, now, jwtSecret)} :
                  \* one avatar is uploaded
                  /\ (a.handler = "uploadAvatarHandler"
                        /\ \E u \in DOMAIN users : users[u].avatar_url # <<>>) => res.w.users = users
                  /\ Commit(1, a, res)
                  /\ client' = IF a.handler = "loginHandler"
                               THEN LoginSubmitted(client, res.status, res.body)
                               ELSE client
    /\ UNCHANGED <<env, phase, jwtSecret, now, probe>>

\* the props App gives the page of each route: Home is given setAuth, Topic
\* is given auth only
AppProps == [p \in Pages |-> IF p = "/" THEN {"auth", "setAuth"}
                             ELSE IF p = "/topic/1" THEN {"auth"} ELSE {"setAuth"}]

\* the user the Header of the page shows: Home shows auth?.user, Topic shows
\* (auth || storedAuth)?.user; Login has no Header
HeaderUser(c) ==
    IF c.page = "/" THEN c.auth
    ELSE IF c.page = "/topic/1" THEN (IF c.auth # Null THEN c.auth ELSE c.storage)
    ELSE Null

\* Header.doLogout on a page that passes onLogout (Home, Topic): the "auth"
\* item is removed, the setAuth the page was given is called with null (Topic
\* calls setAuth?.(null), a no-op when the prop is undefined), the Login page
\* is shown; nothing is sent to the server
doLogout(page) ==
    /\ client.page = page
    /\ HeaderUser(client) # Null
    /\ client' = [client EXCEPT !.storage = Null,
                                !.auth = IF "setAuth" \in AppProps[page] THEN Null ELSE @,
                                !.page = "/login"]
    /\ UNCHANGED <<serverVars, now, probe>>

\* the requests made of a server that may have been restarted: the login of
\* alice, and an avatar upload without a file carrying one of auths
BootRequests(auths) ==
    { Request("POST", "/login", <<>>, [NoBody EXCEPT !.email = "alice", !.password = "pw1"], <<>>) }
    \cup { Request("POST", "/me/avatar", <<>>, NoBody, auth) : auth \in auths }

NextBoot ==
    \/ \E ping \in BOOLEAN : Main(ping)
    \/ \E secret \in Secrets \cup {<<>>} : Restart(secret)
    \/ \E r \in BootRequests(AuthsOf(issued)) : \E nd \in Outcomes :
          \E d \in {Dispatch(r, env, now, jwtSecret)} : Serve(r, nd, d)
    \/ Tick

SpecBoot == InitBoot /\ [][NextBoot]_vars

\* a server that has started with JWT_SECRET = k1
InitSession ==
    /\ env = SessionEnv(StrK1, StrDB)
    /\ jwtSecret = StrK1
    /\ phase = "serving"
    /\ now = Epoch
    /\ users = Fixture.users
    /\ topics = Fixture.topics
    /\ replies = Fixture.replies
    /\ nextID = Fixture.nextID
    /\ issued = {}
    /\ reqs = [s \in Slots |-> Idle]
    /\ resp = NoResp
    /\ probe = NoProbe
    /\ client = NoClient

\* the readings of the clock in SpecSession: the first instant, and the last
\* instant of the life of a token issued then and the one after it
SessionClock == {Epoch, Epoch + TokenLifetime, Epoch + TokenLifetime + 1}

\* the tokens /login can hand out in SpecSession
SessionTokens ==
    { [uid |-> u, at |-> t, key |-> StrK1, tok |-> makeToken(u, t, StrK1)] :
        u \in DOMAIN Fixture.users, t \in SessionClock }

\* the Authorization headers of a session: a held token
SessionAuths(held) == { StrBearer \o t.tok : t \in held }

\* Dispatch(r, env, now, jwtSecret) tabulated for the server of SpecSession
SessionTable ==
    [t \in SessionClock |->
        [r \in SessionRequests(SessionAuths(SessionTokens)) |->
            Dispatch(r, SessionEnv(StrK1, StrDB), t, StrK1)]]

NextSession ==
    \/ \E r \in SessionRequests(SessionAuths(issued)) : \E nd \in Outcomes :
          /\ env = SessionEnv(StrK1, StrDB) /\ jwtSecret = StrK1
          /\ \E d \in {SessionTable[now][r]} : Serve(r, nd, d)
    \/ \E nd \in Outcomes : Step(1, nd)
    \/ doLogout("/")
    \/ Tick /\ now' \in SessionClock

SpecSession == InitSession /\ [][NextSession]_vars

(***************************************************************************)
(* Two logins answered by the same server in the same state: SpecLogin.    *)
(***************************************************************************)
\* the emails and passwords a login may carry
LoginEmails == {"alice", "bob", "carol", ""}
LoginPasswords == {"pw1", "pw2", "pw3", ""}

\* /login served twice, with (e1, p1) and with (e2, p2), the SELECT of both
\* having the outcome nd
ProbeLogin(e1, p1, e2, p2, nd) ==
    /\ probe = NoProbe
    /\ \E out \in {[b \in {<<e1, p1>>, <<e2, p2>>} |->
                      HandlerStep([req |-> Request("POST", "/login", <<>>,
                                                   [NoBody EXCEPT !.email = b[1], !.password = b[2]],
                                                   <<>>),
                                   ctx |-> <<>>, handler |-> "loginHandler",
                                   pc |-> "start", local |-> 0],
                                  World, nd, now, jwtSecret)]} :
          probe' = [op |-> "login", first |-> <<e1, p1>>, second |-> <<e2, p2>>, nd |-> nd,
                    at |-> now, out |-> out,
                    mutated |-> \E b \in DOMAIN out : out[b].w # World]
    /\ UNCHANGED <<serverVars, now, client>>

NextLogin ==
    \/ Tick
    \/ \E e1 \in LoginEmails : \E p1 \in LoginPasswords :
          \E e2 \in LoginEmails : \E p2 \in LoginPasswords :
             \E nd \in Outcomes : ProbeLogin(e1, p1, e2, p2, nd)

SpecLogin == InitSession /\ [][NextLogin]_vars

(***************************************************************************)
(* Accounts: registration, login and avatar uploads: SpecAccounts.         *)
(***************************************************************************)
\* registrations of a new account, of a taken username and of a taken
\* email, logins, and avatar uploads and deletes of reply 1 carrying one
\* of auths
AccountRequests(auths) ==
    LET register(name, email, password) ==
            Request("POST", "/register", <<>>,
                    [NoBody EXCEPT !.name = name, !.email = email, !.password = password], <<>>)
        login(email, password) ==
            Request("POST", "/login", <<>>,
                    [NoBody EXCEPT !.email = email, !.password = password], <<>>)
    IN  { register("carol", "carol", "pw3"), register("alice", "dave", "pw3"),
          register("dave", "bob", "pw3"), login("bob", "pw2"), login("carol", "pw3") }
        \cup UNION { { Request("POST", "/me/avatar", <<>>, [NoBody EXCEPT !.file = "image"], auth),
                       Request("DELETE", "/replies/", Itoa(1), NoBody, auth) } :
                     auth \in auths }

\* the tokens /login can hand out in SpecAccounts
AccountTokens ==
    { [uid |-> u, at |-> t, key |-> StrK1, tok |-> makeToken(u, t, StrK1)] :
        u \in 1..MaxAccounts, t \in SessionClock }

\* Dispatch(r, env, now, jwtSecret) tabulated for the server of SpecAccounts
AccountsTable ==
    [t \in SessionClock |->
        [r \in AccountRequests(SessionAuths(AccountTokens)) |->
            Dispatch(r, SessionEnv(StrK1, StrDB), t, StrK1)]]

NextAccounts ==
    \/ \E r \in AccountRequests(SessionAuths(issued)) : \E nd \in Outcomes :
          /\ env = SessionEnv(StrK1, StrDB) /\ jwtSecret = StrK1
          /\ \E d \in {AccountsTable[now][r]} : Serve(r, nd, d)
    \/ \E nd \in Outcomes : Step(1, nd)
    \/ Tick /\ now' \in SessionClock

SpecAccounts == InitSession /\ [][NextAccounts]_vars

(***************************************************************************)
(* The browser and the server it talks to: SpecClient.                     *)
(***************************************************************************)
\* the handler of activation a run to its end on w, its k-th statement
\* having the outcome nds[k]
RECURSIVE RunHandlerWith(_, _, _, _, _)
RunHandlerWith(a, w, nds, clock, secret) ==
    LET res == HandlerStep(a, w, Head(nds), clock, secret)
    IN  IF res.pc = "done" THEN res
        ELSE RunHandlerWith([a EXCEPT !.pc = res.pc, !.local = res.local], res.w, Tail(nds),
                            clock, secret)

\* the outcomes of the statements of one handler run: all succeed, or one of
\* the first three fails
StatementOutcomes ==
    { [k \in 1..4 |-> [AllSucceed EXCEPT !.ok = (k # failing)]] : failing \in 0..3 }

\* auth?.token, as an Authorization header; the empty header when auth is null
BearerOf(auth) == IF auth = Null THEN <<>> ELSE StrBearer \o auth.token

\* what the browser may do that sends a request: submit the Login form, pick
\* a file in the Header menu, deleteTopic(id) and updateTopic(topic) of App
\* from Home, load the application (App mounts and fetches /topics); sent is
\* FALSE when the function returns before fetch for want of a token
ClientCalls(c) ==
    { [op |-> "login", target |-> 0, sent |-> TRUE,
       req |-> Request("POST", "/login", <<>>,
                       [NoBody EXCEPT !.email = form[1], !.password = form[2]], <<>>)] :
         form \in IF c.page = "/login"
                  THEN {<<"alice", "pw1">>, <<"bob", "pw2">>, <<"alice", "pw2">>} ELSE {} }
    \cup
    { [op |-> "upload", target |-> 0, sent |-> c.storage # Null,
       req |-> Request("POST", "/me/avatar", <<>>, [NoBody EXCEPT !.file = "image"],
                       BearerOf(c.storage))] :
         x \in IF HeaderUser(c) # Null THEN {1} ELSE {} }
    \cup
    { [op |-> "deleteTopic", target |-> id, sent |-> c.auth # Null,
       req |-> Request("DELETE", "/topics/", Itoa(id), NoBody, BearerOf(c.auth))] :
         id \in IF c.page = "/" THEN 1..MaxTopics ELSE {} }
    \cup
    { [op |-> "updateTopic", target |-> id, sent |-> c.auth # Null,
       req |-> Request("PUT", "/topics/", Itoa(id),
                       [NoBody EXCEPT !.title = "b", !.content = "b"], BearerOf(c.auth))] :
         id \in IF c.page = "/" THEN 1..MaxTopics ELSE {} }
    \cup
    { [op |-> "load", target |-> 0, sent |-> TRUE,
       req |-> Request("GET", "/topics", <<>>, NoBody, <<>>)] }

\* Received with a deleteTopic that filters the list whatever the answer
Received_deleteUnconfirmed(c, call, status, body) ==
    LET ok == status \in 200..299
    IN  CASE call.op = "login" -> LoginSubmitted(c, status, body)
          [] call.op = "upload" ->
                IF ~ok THEN c
                ELSE LET updatedAuth == [c.storage EXCEPT !.user.avatar_url = body.avatar_url]
                     IN  [c EXCEPT !.storage = updatedAuth,
                                   !.auth = IF c.page = "/topic/1" /\ "setAuth" \in AppProps[c.page]
                                            THEN updatedAuth ELSE @]
          [] call.op = "deleteTopic" ->
                IF ok /\ ~ok THEN c
                ELSE [c EXCEPT !.topics = { t \in @ : t.id # call.target }]
          [] call.op = "updateTopic" ->
                IF ~ok THEN c
                ELSE [c EXCEPT !.topics = { IF t.id = body.id THEN body ELSE t : t \in @ }]
          [] call.op = "load" ->
                [c EXCEPT !.auth = c.storage, !.topics = IF status = 200 THEN body ELSE {}]

\* the browser after the response (status, body) to call: Login.handleSubmit,
\* the onChange of the Header's file input (the Header is given no setAuth
\* on Home, and on Topic the setAuth Topic was given), deleteTopic,
\* updateTopic, and App mounting (auth is read from localStorage, topics is
\* the array answered, or empty)
Received(c, call, status, body) ==
    LET ok == status \in 200..299
    IN  CASE call.op = "login" -> LoginSubmitted(c, status, body)
          [] call.op = "upload" ->
                IF ~ok THEN c
                ELSE LET updatedAuth == [c.storage EXCEPT !.user.avatar_url = body.avatar_url]
                     IN  [c EXCEPT !.storage = updatedAuth,
                                   !.auth = IF c.page = "/topic/1" /\ "setAuth" \in AppProps[c.page]
                                            THEN updatedAuth ELSE @]
          [] call.op = "deleteTopic" ->
                IF ~ok THEN c
                ELSE [c EXCEPT !.topics = { t \in @ : t.id # call.target }]
          [] call.op = "updateTopic" ->
                IF ~ok THEN c
                ELSE [c EXCEPT !.topics = { IF t.id = body.id THEN body ELSE t : t \in @ }]
          [] call.op = "load" ->
                [c EXCEPT !.auth = c.storage, !.topics = IF status = 200 THEN body ELSE {}]

\* the browser makes a call: when a request is sent it goes through cors, mux
\* and requireAuth, of which d is the result, and its handler runs to the end,
\* then the browser handles the response; the probe records the call, the
\* answer and the topic list as it was before
Call(call, nds, d) ==
    /\ phase = "serving"
    /\ call.op = "login" => Cardinality(issued) < MaxIssued
    \* one avatar is uploaded
    /\ call.op = "upload" => \A u \in DOMAIN users : users[u].avatar_url = <<>>
    /\ IF ~call.sent
       THEN /\ probe' = [op |-> call.op, target |-> call.target, sent |-> FALSE, status |-> 0,
                         body |-> "", before |-> client.topics]
            /\ UNCHANGED <<users, topics, replies, nextID, issued, client>>
       ELSE \E res \in {IF d.stage = "handler"
                        THEN RunHandlerWith(Activation(call.req, d), World, nds, now, jwtSecret)
                        ELSE Done(World, d.status, d.body)} :
               /\ users' = res.w.users
               /\ topics' = res.w.topics
               /\ replies' = res.w.replies
               /\ nextID' = res.w.nextID
               /\ issued' = IF call.op = "login" /\ res.status = 200
                            THEN issued \cup {[uid |-> res.body.user.id, at |-> now,
                                               key |-> jwtSecret, tok |-> res.body.token]}
                            ELSE issued
               /\ client' = Received(client, call, res.status, res.body)
               /\ probe' = [op |-> call.op, target |-> call.target, sent |-> TRUE,
                            status |-> res.status, body |-> res.body,
                            before |-> client.topics]
    /\ UNCHANGED <<env, phase, jwtSecret, now, reqs, resp>>

\* navigate(page): another page of App is shown; the Topic page shows its
\* Header once the topic is fetched
navigate(page) ==
    /\ client.page # page
    /\ page = "/topic/1" => 1 \in DOMAIN topics
    /\ client' = [client EXCEPT !.page = page]
    /\ UNCHANGED <<serverVars, now, probe>>

\* the instants at which the browser is used: the start, and past the expiry of
\* a token issued at the start
ClientClock == {Epoch, Epoch + TokenLifetime + 1}

\* Dispatch(r, env, now, jwtSecret) tabulated for the server of SpecClient and
\* the requests of a browser holding no token or a token /login can hand out
ClientTable ==
    LET holders == {Null} \cup { [token |-> makeToken(u, t, StrK1)] :
                                    u \in DOMAIN Fixture.users, t \in ClientClock }
        browsers == { [auth |-> x, storage |-> y, page |-> p, topics |-> {}] :
                        x \in holders, y \in holders, p \in Pages }
        requests == UNION { { call.req : call \in ClientCalls(c) } : c \in browsers }
    IN  [t \in ClientClock |->
            [r \in requests |-> Dispatch(r, SessionEnv(StrK1, StrDB), t, StrK1)]]

NextClient ==
    \/ \E call \in ClientCalls(client) : \E nds \in StatementOutcomes :
          /\ env = SessionEnv(StrK1, StrDB) /\ jwtSecret = StrK1
          /\ \E d \in {ClientTable[now][call.req]} : Call(call, nds, d)
    \/ \E page \in {"/", "/topic/1"} : doLogout(page)
    \/ \E page \in Pages : navigate(page)
    \/ Tick /\ now' \in ClientClock

\* the server is up with the fixture and a second topic, bob's; the browser
\* has not been used
InitClient ==
    /\ env = SessionEnv(StrK1, StrDB)
    /\ jwtSecret = StrK1
    /\ phase = "serving"
    /\ now = Epoch
    /\ users = Fixture.users
    /\ topics = Fixture.topics @@ (2 :> [title |-> "a", content |-> "a", user_id |-> 2])
    /\ replies = Fixture.replies
    /\ nextID = [Fixture.nextID EXCEPT !.topics = 3]
    /\ issued = {}
    /\ reqs = [s \in Slots |-> Idle]
    /\ resp = NoResp
    /\ probe = NoProbe
    /\ client = NoClient

SpecClient == InitClient /\ [][NextClient]_vars

(***************************************************************************)
(* Claims.                                                                 *)
(***************************************************************************)

\* C1: for every non-zero user id, parseToken(makeToken(id)) evaluated at once
\* under the same secret returns exactly id and no error.
C1_RoundTrip ==
    (probe.op = "roundtrip" /\ probe.id # 0)
        => probe.res = [uid |-> probe.id, err |-> ErrNone]

C1_Witness ==
    /\ probe.op = "roundtrip"
    /\ probe.id = 2
    /\ now > Epoch
    /\ probe.res.uid = 2
    /\ probe.res.err = ErrNone

\* C2 as stated: replacing any single character of either segment of an issued
\* token by any different character is rejected with "bad signature".
C2_Original ==
    (probe.op = "tamper" /\ probe.segment # "separator")
        => probe.res = [uid |-> 0, err |-> "bad signature"]

\* C2 amended: replacing any single character of either segment of an issued
\* token by a different character is always rejected; the reason is "bad
\* signature", except that writing the separator "." makes three parts and the
\* reason is then "bad token".
C2_TamperRejected ==
    (probe.op = "tamper" /\ probe.segment # "separator")
        => /\ probe.res.uid = 0
           /\ probe.res.err = IF probe.byte = Dot THEN "bad token" ELSE "bad signature"

C2_Witness ==
    /\ probe.op = "tamper"
    /\ probe.segment = "claims"
    /\ probe.byte # Dot
    /\ B64Index(probe.byte) >= 0
    /\ probe.res.err = "bad signature"

\* C5: a correctly signed token with expiry T is accepted at T - 1 and at T,
\* and rejected as expired at T + 1.
C5_ExpiryBoundary ==
    probe.op = "verify" =>
        LET T == probe.issuedAt + TokenLifetime
        IN  /\ probe.at \in {T - 1, T} => probe.res = [uid |-> probe.id, err |-> ErrNone]
            /\ probe.at = T + 1 => probe.res = [uid |-> 0, err |-> "expired"]

C5_Witness ==
    /\ probe.op = "verify"
    /\ probe.id = 1
    /\ probe.at = probe.issuedAt + TokenLifetime + 1
    /\ probe.res.err = "expired"

\* the token of a "valid" candidate is issued at Epoch: it is accepted until
\* Epoch + TokenLifetime included
CredentialAccepted ==
    /\ probe.authKind = "valid"
    /\ probe.at <= Epoch + TokenLifetime

\* C6: requireAuth never invokes the wrapped handler when the Authorization
\* header is absent, does not start with "Bearer ", or carries a token that
\* parseToken rejects; the request ends there with 401.
C6_GateRejects ==
    (probe.op = "dispatch" /\ probe.out.gated /\ ~CredentialAccepted)
        => /\ probe.out.stage = "auth"
           /\ probe.out.status = 401
           /\ probe.out.handler = ""

C6_Witness ==
    /\ probe.op = "dispatch"
    /\ probe.req.method = "DELETE"
    /\ probe.req.route = "/topics/"
    /\ probe.authKind = "lowerCaseScheme"
    /\ probe.out.gated
    /\ probe.out.stage = "auth"
    /\ probe.out.status = 401

\* C7: whatever the reason the token was refused for (malformed, bad
\* signature, undecodable payload, payload that is not JSON, expired), the
\* Authentication Gate answers with the same status 401 and the same body.
C7_UniformRejection ==
    (probe.op = "dispatch" /\ probe.out.gated /\ HasPrefix(probe.req.auth, StrBearer)
        /\ parseToken(TrimPrefix(probe.req.auth, StrBearer), probe.at, jwtSecret).err # ErrNone)
        => /\ probe.out.stage = "auth"
           /\ probe.out.status = 401
           /\ probe.out.body = "Unauthorized"
           /\ probe.out.headers.ctype = "text/plain; charset=utf-8"

C7_Witness ==
    /\ probe.op = "dispatch"
    /\ probe.out.gated
    /\ probe.authKind = "valid"
    /\ parseToken(TrimPrefix(probe.req.auth, StrBearer), probe.at, jwtSecret).err = "expired"
    /\ probe.out.status = 401
    /\ probe.out.body = "Unauthorized"

ReadRoute(r) == r.method = "GET" /\ r.route \in {"/topics", "/topics/", "/replies"}

WriteRoute(r) ==
    \/ r.method # "GET" /\ r.route \in {"/topics", "/topics/", "/replies"}
    \/ r.route \in {"/replies/", "/me/avatar"}

\* C8: GET on /topics, /topics/{id} and /replies is served without the
\* Authentication Gate, whatever credential the request carries; every other
\* method on those paths, every method on /replies/{id}, and /me/avatar reach
\* their handler only through requireAuth, that is with an accepted token.
C8_RouteConditional ==
    (probe.op = "dispatch" /\ probe.out.stage # "cors")
        => /\ ReadRoute(probe.req) =>
                /\ probe.out.stage = "handler"
                /\ ~probe.out.gated
                /\ probe.out.handler \in {"topicsHandler", "topicByIDHandler", "repliesHandler"}
           /\ WriteRoute(probe.req) =>
                /\ probe.out.gated
                /\ probe.out.stage = "handler" => CredentialAccepted

C8_Witness ==
    /\ probe.op = "dispatch"
    /\ probe.req.method = "GET"
    /\ probe.req.route = "/topics/"
    /\ probe.authKind = "tampered"
    /\ probe.out.stage = "handler"
    /\ probe.out.handler = "topicByIDHandler"

\* an origin is on the allow-list when it equals a configured origin, trailing
\* slashes left aside on both sides
OnAllowList(o, e) ==
    \E a \in {e.FRONTEND_ORIGIN, e.FRONTEND_ORIGIN_2} \ {<<>>} :
        TrimRight(o, Slash) = TrimRight(a, Slash)

\* C9 as stated: a request whose Origin header is present and not on the
\* allow-list is answered 403 by the Origin Gate, for every method, whatever
\* its Authorization header, and is never forwarded.
C9_Original ==
    (probe.op = "dispatch" /\ probe.req.origin # <<>> /\ ~OnAllowList(probe.req.origin, env))
        => /\ probe.out.stage = "cors"
           /\ probe.out.status = 403

\* a request declaring the origin "/" went past the Origin Gate to a handler
C9_Witness ==
    /\ probe.op = "dispatch"
    /\ probe.req.origin = <<Slash>>
    /\ probe.req.method = "GET"
    /\ probe.req.route = "/topics"
    /\ probe.out.stage = "handler"
    /\ probe.out.headers.acao = <<>>

\* a trailing slash, if there is one, removed
StripSlash(o) == IF o # <<>> /\ o[Len(o)] = Slash THEN SubSeq(o, 1, Len(o) - 1) ELSE o

\* C10: when the Origin header matches an allow-listed origin, the response
\* names exactly that origin in Access-Control-Allow-Origin and the request
\* proceeds; the header never holds a wildcard nor an origin off the list.
C10_AllowOriginExact ==
    probe.op = "dispatch" =>
        LET o == probe.req.origin
            list == { StripSlash(a) : a \in {env.FRONTEND_ORIGIN, env.FRONTEND_ORIGIN_2} \ {<<>>} }
            acao == probe.out.headers.acao
        IN  /\ (o # <<>> /\ StripSlash(o) \in list) =>
                /\ acao = StripSlash(o)
                /\ probe.req.method # "OPTIONS" => probe.out.stage # "cors"
                /\ probe.req.method = "OPTIONS" => probe.out.status = 204
            /\ acao # <<>> => (acao \in list /\ acao # <<42>>)

C10_Witness ==
    /\ probe.op = "dispatch"
    /\ env.FRONTEND_ORIGIN = StrApp
    /\ probe.req.origin = StrApp \o <<Slash>>
    /\ probe.req.method = "POST"
    /\ probe.out.headers.acao = StrApp
    /\ probe.out.stage = "auth"

\* the subject of the token a request carries, as parseToken verifies it; 0
\* when it carries none that verifies
VerifiedSubject(auth) ==
    IF HasPrefix(auth, StrBearer)
    THEN parseToken(TrimPrefix(auth, StrBearer), now, jwtSecret).uid
    ELSE 0

\* row id of table t is modified or removed by the step
Touched(t, tNext, id) == id \notin DOMAIN tNext \/ tNext[id] # t[id]

\* C3: under any interleaving of concurrent requests, a step that edits or
\* deletes an existing topic or reply belongs to a request whose verified
\* token subject is the recorded owner of that resource; the steps of every
\* other request, a caller without a valid token included, leave it unchanged.
C3_OnlyOwnerMutates ==
    [][ /\ \A id \in DOMAIN topics : Touched(topics, topics', id) =>
              /\ resp'.req.route = "/topics/"
              /\ VerifiedSubject(resp'.req.auth) = topics[id].user_id
              /\ topics[id].user_id # 0
        /\ \A id \in DOMAIN replies : Touched(replies, replies', id) =>
              /\ resp'.req.route = "/replies/"
              /\ VerifiedSubject(resp'.req.auth) = replies[id].user_id
              /\ replies[id].user_id # 0 ]_vars

\* the owner's delete of topic 1 has just been applied while an edit of the
\* same topic, past its ownership check, is still in flight
C3_Witness ==
    /\ 1 \notin DOMAIN topics
    /\ resp.status = 204
    /\ resp.req.method = "DELETE"
    /\ resp.req.route = "/topics/"
    /\ resp.ctx = <<1>>
    /\ \E s \in Slots : /\ reqs[s] # Idle
                        /\ reqs[s].pc = "update"
                        /\ reqs[s].req.route = "/topics/"
    /\ 1 \in DOMAIN replies
    /\ replies[1].content = "b"

\* C4: an edit or delete handler, reached with a subject for a resource that
\* exists, mutates the resource iff the subject is non-zero and equals the
\* owner; subject 0 is refused even when the recorded owner is 0.
C4_OwnershipDecision ==
    (probe.op = "ownership" /\ probe.target = 1)
        => /\ probe.mutated <=> (probe.subject # 0 /\ probe.subject = probe.owner)
           /\ probe.subject = 0 => probe.status = 401
           /\ (probe.subject # 0 /\ probe.subject # probe.owner) => probe.status = 403

C4_Witness ==
    /\ probe.op = "ownership"
    /\ probe.target = 1
    /\ probe.method = "PUT"
    /\ probe.route = "/topics/"
    /\ probe.subject = 0
    /\ probe.owner = 0
    /\ ~probe.mutated
    /\ probe.status = 401

\* no Access-Control-* header on the response
NoCrossOriginHeaders(h) == h.acao = <<>> /\ h.acam = "" /\ h.acah = ""

\* C11 as stated: every request that declares no Origin, whatever its method,
\* is passed through by the Origin Gate and gets no Access-Control-* header.
C11_Original ==
    (probe.op = "dispatch" /\ probe.req.origin = <<>>)
        => /\ probe.out.stage # "cors"
           /\ NoCrossOriginHeaders(probe.out.headers)

\* C11 amended: a request that declares no Origin gets no Access-Control-*
\* header; it is passed through to the next stage unless its method is
\* OPTIONS, in which case the Origin Gate answers it itself with 403.
C11_NoOriginPassThrough ==
    (probe.op = "dispatch" /\ probe.req.origin = <<>>)
        => /\ NoCrossOriginHeaders(probe.out.headers)
           /\ probe.req.method # "OPTIONS" => probe.out.stage # "cors"
           /\ probe.req.method = "OPTIONS" =>
                (probe.out.stage = "cors" /\ probe.out.status = 403)

C11_Witness ==
    /\ probe.op = "dispatch"
    /\ probe.req.origin = <<>>
    /\ probe.req.method = "DELETE"
    /\ probe.req.route = "/replies/"
    /\ probe.authKind = "valid"
    /\ probe.out.stage = "handler"
    /\ NoCrossOriginHeaders(probe.out.headers)

OriginAllowed == probe.out.stage # "cors" \/ probe.out.status = 204

OriginAcceptable == probe.req.origin = <<>> \/ OnAllowList(probe.req.origin, env)

\* C14 as stated: on a gated route an authentication failure (no header,
\* malformed, tampered or expired token) is answered 401; an origin that is
\* not allowed, and an edit by an authenticated subject of a resource another
\* subject owns, are answered 403; the same edit by the owner succeeds.
C14_Original ==
    probe.op = "serve" =>
        /\ ~OriginAcceptable => probe.status = 403
        /\ (OriginAcceptable /\ ~CredentialAccepted) => probe.status = 401
        /\ (OriginAcceptable /\ CredentialAccepted /\ probe.uid # 0 /\ probe.existed
              /\ probe.req.method = "PUT" /\ probe.bodyKind = "valid") =>
                IF probe.uid = probe.owner
                THEN probe.status = 200 /\ probe.mutated
                ELSE probe.status = 403 /\ ~probe.mutated

\* the owner's edit went through although the request declared the origin "/"
C14_Witness ==
    /\ probe.op = "serve"
    /\ probe.req.origin = <<Slash>>
    /\ probe.req.method = "PUT"
    /\ probe.req.route = "/topics/"
    /\ probe.uid = 1
    /\ probe.owner = 1
    /\ probe.status = 200
    /\ probe.mutated

\* the probed edit or delete reached its handler with a non-zero subject and
\* targets an id that is not in the table
AuthenticatedOnMissing ==
    /\ probe.op = "serve"
    /\ probe.stage = "handler"
    /\ probe.uid # 0
    /\ ~probe.existed

\* the handler refuses the body of the probed request before any lookup
BodyRefused ==
    /\ probe.req.method = "PUT"
    /\ \/ probe.bodyKind = "invalid"
       \/ probe.bodyKind = "blank" /\ probe.req.route = "/replies/"

\* C15 as stated: an authenticated edit or delete of a topic or reply id that
\* does not exist is answered "not found", never "forbidden".
C15_Original ==
    AuthenticatedOnMissing => probe.status = 404

\* C15 amended: an authenticated edit or delete of an id that does not exist
\* is never answered "forbidden" and changes nothing; it is answered "not
\* found", unless it is an edit whose body the handler refuses (not JSON, or
\* blank reply content), which is answered 400 before the resource is looked
\* up.
C15_NotFoundBeforeOwnership ==
    AuthenticatedOnMissing =>
        /\ probe.status # 403
        /\ ~probe.mutated
        /\ probe.status = IF BodyRefused THEN 400 ELSE 404

C15_Witness ==
    /\ AuthenticatedOnMissing
    /\ probe.req.method = "DELETE"
    /\ probe.req.route = "/topics/"
    /\ probe.uid = 2
    /\ probe.status = 404
    /\ probe.body = "Topic not found"

(***************************************************************************)
(* C16: login rejects an unknown email and a wrong password alike.         *)
(***************************************************************************)
\* the account the email of login b names, if any
AccountOf(b) == {u \in DOMAIN users : users[u].email = b[1]}

\* login b names no account
UnknownEmail(b) == b[1] # "" /\ b[2] # "" /\ AccountOf(b) = {}

\* login b names an account and its password is not the one whose hash is stored
WrongPassword(b) ==
    /\ b[2] # ""
    /\ AccountOf(b) # {}
    /\ \A u \in AccountOf(b) : ~CompareHashAndPassword(users[u].password_hash, b[2])

\* C16: a login whose email matches no account and a login whose email
\* matches an account but whose password is wrong get the same response, status
\* and body, and it is the rejection "Invalid email or password" when the
\* lookup succeeds; a login is answered with a token only when its password
\* verifies against the hash stored for the account its email names.
C16_UniformLoginFailure ==
    probe.op = "login" =>
        /\ (UnknownEmail(probe.first) /\ WrongPassword(probe.second)) =>
              /\ probe.out[probe.first].status = probe.out[probe.second].status
              /\ probe.out[probe.first].body = probe.out[probe.second].body
              /\ probe.nd.ok => /\ probe.out[probe.first].status = 401
                                /\ probe.out[probe.first].body = "Invalid email or password"
        /\ \A b \in DOMAIN probe.out :
              probe.out[b].status \in 200..299 =>
                 \E u \in AccountOf(b) :
                    /\ CompareHashAndPassword(users[u].password_hash, b[2])
                    /\ probe.out[b].body.user.id = u
                    /\ parseToken(probe.out[b].body.token, probe.at, jwtSecret).uid = u
        /\ ~probe.mutated

\* carol, who has no account, and alice with bob's password are both turned
\* away, while alice with her own password is not
C16_Witness ==
    /\ probe.op = "login"
    /\ probe.first = <<"carol", "pw1">>
    /\ probe.second = <<"alice", "pw2">>
    /\ probe.nd.ok
    /\ probe.out[probe.first].status = 401
    /\ probe.out[probe.second].status = 401

(***************************************************************************)
(* C17: nothing revokes a token before it expires.                         *)
(***************************************************************************)
\* token t has not expired
Unexpired(t) == now <= t.at + TokenLifetime

\* C17: whatever has happened since a token was issued (further logins, a
\* logout in the browser, resources created, edited or deleted, avatars
\* uploaded, time passing), as long as the server still runs with the secret
\* that signed it and the token has not expired, parseToken accepts it for
\* its subject, and a request on a gated route that carries it passes
\* requireAuth with that subject.
C17_TokensStateless ==
    \A t \in issued :
        (t.key = jwtSecret /\ Unexpired(t)) =>
            /\ parseToken(t.tok, now, jwtSecret).err = ErrNone
            /\ parseToken(t.tok, now, jwtSecret).uid = t.uid
            /\ (resp # NoResp /\ resp.req.auth = StrBearer \o t.tok) =>
                  /\ resp.status # 401
                  /\ resp.ctx = <<t.uid>>

\* alice's token of the first instant is used at the last instant of its
\* life to delete her topic, after a later login, a logout and an avatar upload
C17_Witness ==
    /\ now = Epoch + TokenLifetime
    /\ client.auth = Null
    /\ \E t \in issued :
          /\ t.at = Epoch
          /\ t.uid = 1
          /\ \E t2 \in issued : t2.at > t.at
          /\ users[1].avatar_url # <<>>
          /\ resp # NoResp
          /\ resp.req.auth = StrBearer \o t.tok
          /\ resp.req.method = "DELETE"
          /\ resp.status = 204
          /\ 1 \notin DOMAIN topics

(***************************************************************************)
(* C18: a new secret invalidates the tokens of the old one.                *)
(***************************************************************************)
\* C18: once the server runs with a secret other than the one that signed a
\* token, parseToken rejects that token at every time, before and after its
\* expiry alike (the signature no longer matches), and a request on a gated
\* route that carries it is answered 401.
C18_RotationInvalidates ==
    \A t \in issued :
        t.key # jwtSecret =>
            /\ \A c \in ClockValues : parseToken(t.tok, c, jwtSecret).err = "bad signature"
            /\ (resp # NoResp /\ resp.req.auth = StrBearer \o t.tok) =>
                  /\ resp.status = 401
                  /\ resp.ctx = <<>>

\* the server was restarted with k2 in place of k1: a token signed with k1,
\* still within its lifetime, has just been refused while one signed with k2
\* is in the hands of a client
C18_Witness ==
    /\ phase = "serving"
    /\ jwtSecret = StrK2
    /\ \E t \in issued :
          /\ t.key = StrK1
          /\ Unexpired(t)
          /\ resp # NoResp
          /\ resp.req.auth = StrBearer \o t.tok
          /\ resp.status = 401
    /\ \E t \in issued : t.key = StrK2

(***************************************************************************)
(* C19: no serving without a signing secret.                               *)
(***************************************************************************)
\* C19: in every state in which the routes are registered and requests are
\* served, jwtSecret is not empty and is the JWT_SECRET the process was
\* started with; a process started without JWT_SECRET, or with an empty one,
\* ends before it serves; and jwtSecret is assigned by main only: no step of a
\* serving process changes it.
C19_SecretSetOnceAtStartup ==
    /\ [](phase = "serving" => (jwtSecret # <<>> /\ jwtSecret = Getenv(env, "JWT_SECRET")))
    /\ [][ /\ (phase = "init" /\ Getenv(env, "JWT_SECRET") = <<>>)
                 => (phase' # "serving" /\ jwtSecret' = <<>>)
           /\ (phase = "serving" /\ phase' = "serving") => (jwtSecret' = jwtSecret)
           /\ (jwtSecret' # jwtSecret) => (phase = "init" \/ phase' = "init") ]_vars

\* a server that had handed out a token was restarted without JWT_SECRET:
\* the new process has ended without serving and without a secret
C19_Witness ==
    /\ phase = "aborted"
    /\ Getenv(env, "JWT_SECRET") = <<>>
    /\ Getenv(env, "DATABASE_URL") # <<>>
    /\ jwtSecret = <<>>
    /\ issued # {}

(***************************************************************************)
(* C20: the owner of a topic or reply never changes.                       *)
(***************************************************************************)
\* C20: no step (an edit, a delete, a reply, an avatar upload, a login or a
\* logout, by the owner or by another account) changes the owner id of a
\* topic or reply that exists before and after it; a reply that appears
\* takes the next serial id, so that it is a new resource, and its owner is
\* an account.
C20_OwnerNeverReassigned ==
    [][ /\ \A id \in DOMAIN topics \cap DOMAIN topics' :
              topics'[id].user_id = topics[id].user_id
        /\ \A id \in DOMAIN replies \cap DOMAIN replies' :
              replies'[id].user_id = replies[id].user_id
        /\ \A id \in DOMAIN replies' \ DOMAIN replies :
              /\ id = nextID.replies
              /\ replies'[id].user_id \in DOMAIN users ]_vars

\* bob has replied a second time and has edited his first reply, alice has
\* edited her topic and uploaded an avatar: the rows still belong to whoever
\* created them
C20_Witness ==
    /\ 1 \in DOMAIN topics
    /\ topics[1].title = "b"
    /\ topics[1].user_id = 1
    /\ 1 \in DOMAIN replies
    /\ replies[1].content = "b"
    /\ replies[1].user_id = 2
    /\ 2 \in DOMAIN replies
    /\ replies[2].user_id = 2
    /\ users[1].avatar_url # <<>>
    /\ Cardinality(issued) = MaxIssued

(***************************************************************************)
(* C21: the subject a handler reads is the subject of the verified token.  *)
(***************************************************************************)
\* C21: a request that requireAuth lets through reaches the handler its
\* route names, once and at its first statement, and getUserID gives that
\* handler the subject id of the token parseToken verified; a request on a
\* route outside requireAuth reaches its handler with getUserID = 0.
C21_SubjectBoundToContext ==
    (probe.op = "dispatch" /\ probe.out.stage = "handler") =>
        LET a == Activation(probe.req, probe.out)
            v == parseToken(TrimPrefix(probe.req.auth, StrBearer), probe.at, jwtSecret)
        IN  /\ a.handler = mux(probe.req).handler
            /\ a.pc = "start"
            /\ a.req = probe.req
            /\ probe.out.gated =>
                  /\ HasPrefix(probe.req.auth, StrBearer)
                  /\ v.err = ErrNone
                  /\ getUserID(a.ctx) = v.uid
            /\ ~probe.out.gated => getUserID(a.ctx) = 0

\* the token of account 2 carried to DELETE /replies/1: replyByIDHandler runs
\* with subject 2
C21_Witness ==
    /\ probe.op = "dispatch"
    /\ probe.req.method = "DELETE"
    /\ probe.req.route = "/replies/"
    /\ probe.req.auth = StrBearer \o makeToken(2, Epoch, jwtSecret)
    /\ probe.out.stage = "handler"
    /\ probe.out.gated
    /\ getUserID(Activation(probe.req, probe.out).ctx) = 2

(***************************************************************************)
(* C22: parseToken checks shape, signature, payload, expiry, in that order.*)
(***************************************************************************)
\* the first part of the probed token decodes to claims
ClaimsDecodable == decodeClaims(probe.first).err = ErrNone

\* C22: parseToken answers "bad token" when the token has not two parts;
\* otherwise "bad signature" when the second part is not the signature of the
\* first, whether or not the first part can be decoded and whether or not its
\* expiry has passed; otherwise the reason the first part cannot be decoded
\* for; otherwise "expired" when its expiry has passed; otherwise it accepts.
C22_CheckOrder ==
    probe.op = "parse" =>
        LET parts == Split(probe.tok, Dot)
            claims == decodeClaims(probe.first)
        IN  IF Len(parts) # 2 THEN probe.res.err = "bad token"
            ELSE IF parts[2] # sign(parts[1], jwtSecret) THEN probe.res.err = "bad signature"
            ELSE IF ~ClaimsDecodable THEN probe.res.err \in {"bad payload", "bad payload json"}
            ELSE IF probe.at > claims.exp THEN probe.res.err = "expired"
            ELSE probe.res.err = ErrNone

\* a first part that is not base64, followed by a signature made with another key
C22_Witness ==
    /\ probe.op = "parse"
    /\ probe.shape = 2
    /\ probe.first = <<33, 33>>
    /\ probe.kind = "foreignKey"
    /\ ~ClaimsDecodable
    /\ probe.res.err = "bad signature"

(***************************************************************************)
(* C23: the expiry of a token; all or nothing from parseToken.             *)
(***************************************************************************)
\* the claims the token issued last carries
IssuedClaims == decodeClaims(Split(probe.tok, Dot)[1])

\* C23: a token issued by makeToken carries the subject id it was asked for
\* and an expiry of the issuance time plus 24 hours (86400 seconds); and
\* whatever token parseToken is given, it either accepts it and yields the
\* subject the token carries, or rejects it and yields subject 0.
C23_ExpiryAndAllOrNothing ==
    /\ probe.op \in {"roundtrip", "verify", "tamper"} =>
          /\ IssuedClaims.err = ErrNone
          /\ IssuedClaims.uid = probe.id
          /\ IssuedClaims.exp = probe.issuedAt + 24 * 60 * 60
    /\ probe.op \in {"roundtrip", "verify", "tamper", "parse"} =>
          /\ probe.res.err # ErrNone => probe.res.uid = 0
          /\ probe.op \in {"roundtrip", "verify"} =>
                (probe.res.err = ErrNone => probe.res.uid = probe.id)

\* the token of subject 2, a second after the end of its 24 hours, is
\* refused and no subject comes with the refusal
C23_Witness ==
    /\ probe.op = "verify"
    /\ probe.id = 2
    /\ IssuedClaims.exp = probe.issuedAt + 86400
    /\ probe.at = IssuedClaims.exp + 1
    /\ probe.res.err = "expired"
    /\ probe.res.uid = 0

(***************************************************************************)
(* C24: how many trailing slashes the Origin Gate strips.                  *)
(***************************************************************************)
\* C24 as stated: the Origin Gate strips one trailing slash from the declared
\* and from each configured origin, so that a declared origin (other than
\* one made of slashes only) is allowed only if it equals a configured
\* origin once a single trailing slash is removed from both.
C24_Original ==
    (probe.op = "dispatch" /\ TrimRight(probe.req.origin, Slash) # <<>> /\ OriginAllowed)
        => \E a \in {env.FRONTEND_ORIGIN, env.FRONTEND_ORIGIN_2} \ {<<>>} :
              StripSlash(probe.req.origin) = StripSlash(a)

\* "https://app.example.com//" declared against "https://app.example.com"
\* configured is let through and named allowed, without its slashes
C24_Witness ==
    /\ probe.op = "dispatch"
    /\ probe.req.origin = StrApp \o <<Slash, Slash>>
    /\ env.FRONTEND_ORIGIN = StrApp
    /\ probe.req.method = "POST"
    /\ probe.out.stage # "cors"
    /\ probe.out.headers.acao = StrApp

(***************************************************************************)
(* C25: what happens to accounts.                                          *)
(***************************************************************************)
\* C25: no step removes an account; an account appears only in the step
\* that answers a registration with success; an existing account changes
\* only in a step of an avatar upload whose verified token subject is that
\* account, and then only its avatar reference changes: its id, name, email
\* and password hash stay as they were, and so does every other account.
C25_AccountsFrame ==
    [][ /\ DOMAIN users \subseteq DOMAIN users'
        /\ \A u \in DOMAIN users' \ DOMAIN users :
              /\ resp'.req.route = "/register"
              /\ resp'.status = 200
              /\ u = nextID.users
        /\ \A u \in DOMAIN users :
              users'[u] # users[u] =>
                 /\ resp'.req.route = "/me/avatar"
                 /\ VerifiedSubject(resp'.req.auth) = u
                 /\ users'[u] = [users[u] EXCEPT !.avatar_url = users'[u].avatar_url] ]_vars

\* carol has registered and logged in, and her upload has set her avatar
\* and no one else's
C25_Witness ==
    /\ 3 \in DOMAIN users
    /\ users[3].username = "carol"
    /\ users[3].avatar_url # <<>>
    /\ users[1] = Fixture.users[1]
    /\ users[2] = Fixture.users[2]
    /\ resp # NoResp
    /\ resp.req.route = "/me/avatar"
    /\ resp.status = 200
    /\ resp.ctx = <<3>>

(***************************************************************************)
(* C26: a created topic or reply is owned by the verified token subject.   *)
(***************************************************************************)
\* C26: every topic or reply that POST /topics or POST /replies creates is
\* recorded with the subject of the verified token as owner, whatever owner
\* id the body names: never owner 0, never an id that is not the caller's
\* account; a request whose token does not verify creates nothing.
C26_OwnerIsTokenSubject ==
    probe.op = "create" =>
        LET v == parseToken(TrimPrefix(probe.req.auth, StrBearer), probe.at, jwtSecret)
            subject == IF HasPrefix(probe.req.auth, StrBearer) /\ v.err = ErrNone
                       THEN v.uid ELSE 0
        IN  /\ probe.kept
            /\ \A row \in probe.topics \cup probe.replies :
                  /\ row.user_id = subject
                  /\ row.user_id # 0
                  /\ row.user_id \in DOMAIN users
            /\ subject = 0 => probe.topics \cup probe.replies = {}
            /\ probe.status = 200 =>
                  Cardinality(probe.topics) + Cardinality(probe.replies) = 1

\* account 2 posts a topic whose body names account 1 as owner: the topic is
\* recorded as account 2's
C26_Witness ==
    /\ probe.op = "create"
    /\ probe.req.route = "/topics"
    /\ probe.req.body.user_id = 1
    /\ probe.status = 200
    /\ \E row \in probe.topics : row.user_id = 2

(***************************************************************************)
(* C27: a successful edit was applied to a resource that existed.          *)
(***************************************************************************)
\* the step ends the request slot s was running
Completes(s) == reqs[s] # Idle /\ reqs'[s] = Idle

\* C27 as stated: under any interleaving of concurrent requests, a step that
\* answers 200 to PUT /topics/{id} or PUT /replies/{id} leaves the resource in
\* place, holding the values of the request; an edit racing with a delete of
\* the same resource is never answered 200 once the resource is gone.
C27_Original ==
    [][ \A s \in Slots :
          (Completes(s) /\ reqs[s].req.method = "PUT" /\ resp'.status = 200) =>
             LET r == reqs[s].req
                 id == Atoi(TrimSuffix(r.rest, Slash)).val
             IN  /\ r.route = "/topics/" =>
                       /\ id \in DOMAIN topics'
                       /\ topics'[id].title = r.body.title
                       /\ topics'[id].content = r.body.content
                 /\ r.route = "/replies/" =>
                       /\ id \in DOMAIN replies
                       /\ id \in DOMAIN replies'
                       /\ replies'[id].content = r.body.content ]_vars

\* the edit of reply 1 by its owner has just been answered 200 with the new
\* content, and reply 1 does not exist
C27_Witness ==
    /\ resp.status = 200
    /\ resp.req.method = "PUT"
    /\ resp.req.route = "/replies/"
    /\ resp.req.rest = Itoa(1)
    /\ resp.body = [id |-> 1, content |-> "b"]
    /\ 1 \notin DOMAIN replies

(***************************************************************************)
(* C28: a delete answered 204 has removed the topic.                       *)
(***************************************************************************)
\* C28 as stated: a step that answers 204 to the owner's DELETE /topics/{id}
\* leaves no topic with that id; when the DELETE statement fails the answer
\* is an error, not 204.
C28_Original ==
    [][ \A s \in Slots :
          (Completes(s) /\ reqs[s].req.method = "DELETE" /\ reqs[s].req.route = "/topics/"
              /\ resp'.status = 204) =>
             Atoi(TrimSuffix(reqs[s].req.rest, Slash)).val \notin DOMAIN topics' ]_vars

\* the owner's delete of topic 1 has just been answered 204 and topic 1 is
\* still there: the DELETE statement failed
C28_Witness ==
    /\ resp.status = 204
    /\ resp.req.method = "DELETE"
    /\ resp.req.route = "/topics/"
    /\ resp.req.rest = Itoa(1)
    /\ resp.ctx = <<1>>
    /\ 1 \in DOMAIN topics
    /\ topics[1].user_id = 1

(***************************************************************************)
(* C29: App's auth and the "auth" item of localStorage agree.              *)
(***************************************************************************)
\* C29 as stated: after any sequence of logins, avatar uploads and logouts on
\* any page, App's in-memory auth equals the credential stored under the
\* localStorage key "auth"; after a logout from Home or from Topic both are
\* empty, so no later request carries the old token.
C29_Original ==
    /\ client.auth = client.storage
    /\ (probe.op \in {"deleteTopic", "updateTopic"} /\ probe.sent) => client.storage # Null

\* after a login and a logout from the Topic page, localStorage holds no
\* credential, App's auth still holds the token, and deleteTopic from Home has
\* sent it: the server deleted topic 1
C29_Witness ==
    /\ client.storage = Null
    /\ client.auth # Null
    /\ client.auth.user.id = 1
    /\ probe.op = "deleteTopic"
    /\ probe.sent
    /\ probe.status = 204
    /\ 1 \notin DOMAIN topics

(***************************************************************************)
(* C30: App's topic list follows the server's confirmation.                *)
(***************************************************************************)
\* C30: deleteTopic and updateTopic send nothing when App holds no token, and
\* leave App's topic list as it was unless the server answered with success;
\* on success deleteTopic removes exactly the topic of the id asked and
\* updateTopic replaces exactly that topic by the record the server returned,
\* which carries the values sent; every other topic of the list is unchanged.
C30_ListFollowsServer ==
    probe.op \in {"deleteTopic", "updateTopic"} =>
        LET ok == probe.sent /\ probe.status \in 200..299
            others(list) == { t \in list : t.id # probe.target }
        IN  /\ ~ok => client.topics = probe.before
            /\ others(client.topics) = others(probe.before)
            /\ (ok /\ probe.op = "deleteTopic") => client.topics = others(probe.before)
            /\ (ok /\ probe.op = "updateTopic") =>
                  /\ probe.body.id = probe.target
                  /\ probe.body.title = "b" /\ probe.body.content = "b"
                  /\ client.topics = others(probe.before) \cup
                        { probe.body : t \in probe.before \ others(probe.before) }

\* deleteTopic(1) was answered 204: of the two topics the list showed, topic
\* 1 is gone and topic 2 is still there
C30_Witness ==
    /\ probe.op = "deleteTopic"
    /\ probe.target = 1
    /\ probe.status = 204
    /\ { t.id : t \in probe.before } = {1, 2}
    /\ { t.id : t \in client.topics } = {2}

====
